---- MODULE Spec2Model ----
(***************************************************************************)
(* Streaming ingestion and conversation state engine of the chat client:   *)
(* the SSE decoder of streamChat, the zustand chat store, and the          *)
(* sendMessage / stopGeneration orchestration of useStreamingResponse.     *)
(*                                                                         *)
(* Text is modelled as a sequence of tokens.  On the wire a token is one   *)
(* unit of the byte stream: "nl" is the newline byte, "data:" and "sp"     *)
(* make up the event prefix `data: `, "{" and "}" delimit a JSON object,   *)
(* "a" is a one-byte character of the content string, "lead" and "trail"   *)
(* are the two bytes of one two-byte character "u", "done" stands for the  *)
(* member `"done":true` and "err" for the member `"error":"..."`.          *)
(***************************************************************************)
EXTENDS Integers, Sequences, FiniteSets, TLC

\* ------------------------------------------------------------------ bounds
MaxFrags == 2

\* User operations in a behaviour of the client.
MaxOps == 2

\* User operations in a behaviour of the client under the fairness
\* conditions.
MaxLiveOps == 1

\* User operations in a behaviour of the client driven through the page.
MaxUIOps == 2

\* Messages in the list the store operations start from, and operations
\* applied to it.
MaxMsgs == 2

MaxStoreOps == 2

\* ------------------------------------------------------- sequence helpers
Last(s) == s[Len(s)]

Front(s) == SubSeq(s, 1, Len(s) - 1)

RECURSIVE Flatten(_)
Flatten(ss) == IF ss = <<>> THEN <<>> ELSE Head(ss) \o Flatten(Tail(ss))

IsPrefixOf(s, t) == Len(s) <= Len(t) /\ SubSeq(t, 1, Len(s)) = s

\* ---------------------------------------------------------- wire format
NL == "nl"

Delim == <<NL, NL>>

DataPrefix == <<"data:", "sp">>

\* Characters a JSON string of the payload may hold after decoding.
ContentChars == {"a", "u", "fffd"}

\* ------------------------------------------------------------ TextDecoder
\* decoder.decode(value, {stream: true}): a lead byte at the end of a chunk
\* is held back until the next chunk; a broken pair becomes U+FFFD.
RECURSIVE TextDecode(_, _)
TextDecode(pend, bytes) ==
    IF bytes = <<>> THEN [text |-> <<>>, pending |-> pend]
    ELSE LET b == Head(bytes)
             rest == Tail(bytes)
         IN  IF pend
             THEN IF b = "trail"
                  THEN LET r == TextDecode(FALSE, rest)
                       IN  [text |-> <<"u">> \o r.text, pending |-> r.pending]
                  ELSE LET r == TextDecode(FALSE, bytes)
                       IN  [text |-> <<"fffd">> \o r.text, pending |-> r.pending]
             ELSE IF b = "lead" THEN TextDecode(TRUE, rest)
             ELSE LET r == TextDecode(FALSE, rest)
                  IN  [text |-> <<(IF b = "trail" THEN "fffd" ELSE b)>> \o r.text,
                       pending |-> r.pending]

\* ------------------------------------------------------- buffer.split
\* Index of the leftmost occurrence of the delimiter, 0 when there is none.
DelimIndex(s) ==
    LET hits == {i \in 1..(Len(s) - 1) : s[i] = NL /\ s[i + 1] = NL}
    IN  IF hits = {} THEN 0 ELSE CHOOSE i \in hits : \A j \in hits : i <= j

RECURSIVE Split(_)
Split(s) ==
    LET i == DelimIndex(s)
    IN  IF i = 0 THEN <<s>>
        ELSE <<SubSeq(s, 1, i - 1)>> \o Split(SubSeq(s, i + 2, Len(s)))

StartsWithData(line) == IsPrefixOf(DataPrefix, line)

Slice6(line) == SubSeq(line, Len(DataPrefix) + 1, Len(line))

\* ------------------------------------------------------------- JSON.parse
RECURSIVE ContentOf(_)
ContentOf(body) ==
    IF body = <<>> THEN <<>>
    ELSE (IF Head(body) \in ContentChars THEN <<Head(body)>> ELSE <<>>)
         \o ContentOf(Tail(body))

\* A payload parses when it is one object: "{" members "}", where a single
\* newline between members is insignificant whitespace.
JSONParse(s) ==
    LET body == SubSeq(s, 2, Len(s) - 1)
        members == {body[i] : i \in 1..Len(body)}
        ok == /\ Len(s) >= 2
              /\ s[1] = "{"
              /\ s[Len(s)] = "}"
              /\ members \subseteq (ContentChars \cup {"done", "err", NL})
    IN  IF ok
        THEN [ok |-> TRUE,
              data |-> [content |-> ContentOf(body),
                        done |-> "done" \in members,
                        error |-> "err" \in members]]
        ELSE [ok |-> FALSE,
              data |-> [content |-> <<>>, done |-> FALSE, error |-> FALSE]]

\* ------------------------------------------------- for (const line of lines)
\* Events the generator yields for one batch of complete lines, and whether
\* it returned on a done event.  A line without the prefix is skipped; a
\* payload that fails to parse is logged and skipped.
\* Variant: a payload that fails to parse ends the stream.
RECURSIVE ProcessLinesFatal(_)
ProcessLinesFatal(lines) ==
    IF lines = <<>> THEN [events |-> <<>>, returned |-> FALSE]
    ELSE LET line == Head(lines)
             p == JSONParse(Slice6(line))
         IN  IF ~StartsWithData(line) THEN ProcessLinesFatal(Tail(lines))
             ELSE IF ~p.ok THEN [events |-> <<>>, returned |-> TRUE]
             ELSE IF p.data.done
                  THEN [events |-> <<p.data>>, returned |-> TRUE]
                  ELSE LET r == ProcessLinesFatal(Tail(lines))
                       IN  [events |-> <<p.data>> \o r.events,
                            returned |-> r.returned]

\* Variant: the generator does not return after a done event.
RECURSIVE ProcessLinesNoReturn(_)
ProcessLinesNoReturn(lines) ==
    IF lines = <<>> THEN [events |-> <<>>, returned |-> FALSE]
    ELSE LET line == Head(lines)
             p == JSONParse(Slice6(line))
             r == ProcessLinesNoReturn(Tail(lines))
         IN  IF StartsWithData(line) /\ p.ok
             THEN [events |-> <<p.data>> \o r.events, returned |-> r.returned]
             ELSE r

RECURSIVE ProcessLines(_)
ProcessLines(lines) ==
    IF lines = <<>> THEN [events |-> <<>>, returned |-> FALSE]
    ELSE LET line == Head(lines)
             p == JSONParse(Slice6(line))
         IN  IF StartsWithData(line) /\ p.ok
             THEN IF p.data.done
                  THEN [events |-> <<p.data>>, returned |-> TRUE]
                  ELSE LET r == ProcessLines(Tail(lines))
                       IN  [events |-> <<p.data>> \o r.events,
                            returned |-> r.returned]
             ELSE ProcessLines(Tail(lines))

\* State of one streamChat generator after `const reader = ...; buffer = ''`.
NewGen == [buffer |-> <<>>, pending |-> FALSE, state |-> "running", reads |-> 0]

\* Variant: the incomplete last line is not kept for the next round.
ResidueDropped(lines) == <<>>

\* What remains in the buffer after the complete lines are taken off.
Residue(lines) == Last(lines)

\* One round of the while loop in which reader.read() delivers a chunk:
\* the generator after the round, and the events it yields in the round.
GenChunk(g, chunk) ==
    LET d == TextDecode(g.pending, chunk)
        lines == Split(g.buffer \o d.text)
        r == ProcessLines(Front(lines))
    IN  [gen |-> [buffer |-> Residue(lines),
                  pending |-> d.pending,
                  state |-> IF r.returned THEN "returned" ELSE "running",
                  reads |-> g.reads + 1],
         events |-> r.events]

\* The round in which reader.read() reports the end of the transport.
GenEnd(g) == [g EXCEPT !.state = "returned", !.reads = g.reads + 1]

\* ------------------------------------------------ wires the server may send
\* The fragments a body is made of: a delta "a", a delta of one two-byte
\* character, a done event, an error event (which carries a content too), a
\* truncated payload, a comment line and an empty line.
FragKinds == {"A", "U", "Done", "Err", "Trunc", "Comment", "Empty"}

FragBytes(k) ==
    CASE k = "A" -> DataPrefix \o <<"{", "a", "}">>
      [] k = "U" -> DataPrefix \o <<"{", "lead", "trail", NL, "}">>
      [] k = "Done" -> DataPrefix \o <<"{", "done", "}">>
      [] k = "Err" -> DataPrefix \o <<"{", "a", "err", "}">>
      [] k = "Trunc" -> DataPrefix \o <<"{", "a">>
      [] k = "Comment" -> <<"ping">>
      [] k = "Empty" -> <<>>

FragValid(k) == k \in {"A", "U", "Done", "Err"}

FragEvent(k) ==
    [content |-> (IF k \in {"A", "Err"} THEN <<"a">>
                  ELSE IF k = "U" THEN <<"u">> ELSE <<>>),
     done |-> (k = "Done"),
     error |-> (k = "Err")]

\* An unterminated last fragment the transport may end with.
Tails == {<<>>, FragBytes("A")}

RECURSIVE WireOf(_)
WireOf(frags) ==
    IF frags = <<>> THEN <<>>
    ELSE FragBytes(Head(frags)) \o Delim \o WireOf(Tail(frags))

FragSeqs == UNION {[1..n -> FragKinds] : n \in 0..MaxFrags}

\* ------------------------------------------------------- chat store (pure)
NULL == 0

NoImage == "none"

Msg(role, content, image) == [role |-> role, content |-> content, image |-> image]

\* addMessage
AddMessage(msgs, m) == Append(msgs, m)

\* Variant: the delta replaces the content.
AppendToLastMessageReplaces(msgs, delta) ==
    IF Len(msgs) > 0 THEN [msgs EXCEPT ![Len(msgs)].content = delta] ELSE msgs

\* Variant: on an empty list the delta becomes a first message.
AppendToLastMessagePushes(msgs, delta) ==
    IF Len(msgs) > 0
    THEN [msgs EXCEPT ![Len(msgs)].content = msgs[Len(msgs)].content \o delta]
    ELSE <<Msg("assistant", delta, NoImage)>>

\* appendToLastMessage
AppendToLastMessage(msgs, delta) ==
    IF Len(msgs) > 0
    THEN [msgs EXCEPT ![Len(msgs)].content = msgs[Len(msgs)].content \o delta]
    ELSE msgs

\* Variant: the image is not attached.
SetLastMessageImageNoop(msgs, image) == msgs

\* setLastMessageImage
SetLastMessageImage(msgs, image) ==
    IF Len(msgs) > 0 THEN [msgs EXCEPT ![Len(msgs)].image = image] ELSE msgs

\* Variant: the new content is added to the old content.
UpdateLastMessageAppends(msgs, content) ==
    IF Len(msgs) > 0
    THEN [msgs EXCEPT ![Len(msgs)].content = msgs[Len(msgs)].content \o content]
    ELSE msgs

\* Variant: the new content comes without the image.
UpdateLastMessageDropsImage(msgs, content) ==
    IF Len(msgs) > 0
    THEN [msgs EXCEPT ![Len(msgs)] = Msg(msgs[Len(msgs)].role, content, NoImage)]
    ELSE msgs

\* updateLastMessage
UpdateLastMessage(msgs, content) ==
    IF Len(msgs) > 0 THEN [msgs EXCEPT ![Len(msgs)].content = content] ELSE msgs

\* ------------------------------------------------------------ user input
\* An input is a sequence of tokens: "sp" is white space, "/imagine" and
\* "/IMAGINE" spell the command in lower and upper case.
IsSpace(c) == c = "sp"

RECURSIVE TrimStart(_)
TrimStart(s) ==
    IF s # <<>> /\ IsSpace(Head(s)) THEN TrimStart(Tail(s)) ELSE s

RECURSIVE TrimEnd(_)
TrimEnd(s) ==
    IF s # <<>> /\ IsSpace(Last(s)) THEN TrimEnd(Front(s)) ELSE s

Trim(s) == TrimEnd(TrimStart(s))

LowerChar(c) == IF c = "/IMAGINE" THEN "/imagine" ELSE c

ToLowerCase(s) == [i \in 1..Len(s) |-> LowerChar(s[i])]

\* content.trim().toLowerCase().startsWith('/imagine')
IsImageCommand(content) ==
    LET t == ToLowerCase(Trim(content))
    IN  t # <<>> /\ Head(t) = "/imagine"

\* content.replace(/^\/imagine\s*/i, '').trim()
PromptOf(content) ==
    Trim(IF content # <<>> /\ LowerChar(Head(content)) = "/imagine"
         THEN TrimStart(Tail(content))
         ELSE content)

UsageWarning == <<"WARN_NO_PROMPT">>

GeneratingText == <<"GENERATING">>

ImageFailedText == <<"WARN_IMAGE_FAILED">>

ErrorNotice == <<"nl", "nl", "WARN_ERROR">>

\* `Here's your image for: "${prompt}"`
ImageCaption(prompt) == <<"IMAGE_FOR", "quote">> \o prompt \o <<"quote">>

Inputs ==
    {<<"hi">>, <<"/IMAGINE", "sp", "cat">>, <<"/imagine">>}

Images == {"img2"}

\* ----------------------------------------------- for await (const chunk of ...)
\* The body of the loop over a batch of yielded events: the deltas appended
\* and how the batch ends ("more": all consumed, "done": break on a done
\* event, "error": throw on an error event).
\* Variant: the content of an error event is appended before the throw.
RECURSIVE ConsumeAppendsError(_)
ConsumeAppendsError(evs) ==
    IF evs = <<>> THEN [deltas |-> <<>>, status |-> "more"]
    ELSE LET e == Head(evs)
         IN  IF e.error THEN [deltas |-> <<e.content>>, status |-> "error"]
             ELSE IF e.done THEN [deltas |-> <<>>, status |-> "done"]
             ELSE LET r == ConsumeAppendsError(Tail(evs))
                  IN  [deltas |-> <<e.content>> \o r.deltas, status |-> r.status]

RECURSIVE Consume(_)
Consume(evs) ==
    IF evs = <<>> THEN [deltas |-> <<>>, status |-> "more"]
    ELSE LET e == Head(evs)
         IN  IF e.error THEN [deltas |-> <<>>, status |-> "error"]
             ELSE IF e.done THEN [deltas |-> <<>>, status |-> "done"]
             ELSE LET r == Consume(Tail(evs))
                  IN  [deltas |-> <<e.content>> \o r.deltas, status |-> r.status]

RECURSIVE AppendAll(_, _)
AppendAll(msgs, deltas) ==
    IF deltas = <<>> THEN msgs
    ELSE AppendAll(AppendToLastMessage(msgs, Head(deltas)), Tail(deltas))

\* ------------------------------------------------------------------ state
VARIABLES
    messages,                 \* store: current message list
    isStreaming,              \* store: streaming flag
    currentConversationId,    \* store: active conversation id, NULL when none
    conversations,            \* store: summary cache
    isLoadingConversations,   \* store: loading flag of the cache
    abortControllerRef,       \* hook: NULL, or the turn whose controller it holds
    turn,                     \* the sendMessage call in flight, or the last one
    tasks,                    \* store operations awaiting the storage collaborator
    sent,                     \* append-message requests issued, in issue order
    srvConvs,                 \* storage: ids of the conversations that exist
    srvMsgs,                  \* storage: messages of each conversation
    srvNext,                  \* storage: next id to assign
    opsLeft                   \* user operations still to come

\* The decoder harness: the fragments and the tail the transport carries, the
\* bytes read so far, the generator, and the events it has yielded.
VARIABLES dFrags, dTail, dPos, dGen, dYielded

dvars == <<dFrags, dTail, dPos, dGen, dYielded>>

mvars == <<messages, isStreaming, currentConversationId, conversations,
           isLoadingConversations, abortControllerRef, turn, tasks,
           sent, srvConvs, srvMsgs, srvNext, opsLeft>>

store == <<messages, isStreaming, currentConversationId, conversations,
           isLoadingConversations>>

server == <<srvConvs, srvMsgs, srvNext>>

ConvIds == 1..(MaxOps + 1)

NoMsg == Msg("none", <<>>, NoImage)

\* A sendMessage call: where it stands (pc), its number, the input, the local
\* convId and fullResponse, the generator it iterates, and what the network
\* gave it: the fragments and tail of the response body, the bytes read, the
\* state of the transport (net), the image of the generation response, and
\* whether its abort signal has fired.  req is the streaming request it has
\* issued, outcome names the way it ended.  overlapped tells that the page
\* has called sendMessage again while this call was in flight.
NoRequest == [conversationId |-> NULL, messages |-> <<>>]

IdleTurn ==
    [pc |-> "idle", no |-> 0, kind |-> "none", input |-> <<>>, convId |-> NULL,
     fullResponse |-> <<>>, gen |-> NewGen, frags |-> <<>>, tail |-> <<>>,
     pos |-> 0, net |-> "none", image |-> NoImage, aborted |-> FALSE,
     req |-> NoRequest, outcome |-> "none", overlapped |-> FALSE]

\* A sendMessage call that has returned: the generator, the reader and the
\* abort signal are gone with it; what the call was and how it ended stays.
Ended(t, outcome) ==
    [IdleTurn EXCEPT !.no = t.no, !.kind = t.kind, !.input = t.input,
                     !.convId = t.convId, !.fullResponse = t.fullResponse,
                     !.net = t.net, !.image = t.image, !.outcome = outcome]

\* A number no operation in flight carries.
FreshId(ts) ==
    CHOOSE n \in 1..(Cardinality(ts) + 1) : \A k \in ts : k.id # n

NewTask(id, op, pc, conv, msg) ==
    [id |-> id, op |-> op, pc |-> pc, conv |-> conv, msg |-> msg,
     snap |-> {}, hist |-> <<>>]

\* What conversationsApi.list() returns for the storage state: one summary
\* for each conversation that exists.
Snapshot(convs) == {[id |-> i] : i \in convs}

\* The part of the state one synchronous stretch of sendMessage works on.
View ==
    [messages |-> messages, isStreaming |-> isStreaming,
     currentConversationId |-> currentConversationId,
     abortControllerRef |-> abortControllerRef,
     tasks |-> tasks, sent |-> sent]

\* Variant: the request is issued without an active conversation too.
SaveMessageUnguarded(v, msg, no) ==
    [v EXCEPT
       !.tasks = @ \cup {NewTask(FreshId(v.tasks), "save", "req",
                                 v.currentConversationId, msg)},
       !.sent = Append(@, [conv |-> v.currentConversationId,
                           msg |-> msg, turn |-> no])]

\* saveMessage up to its first await: nothing without an active conversation,
\* else the append-message request is issued.
SaveMessage(v, msg, no) ==
    IF v.currentConversationId = NULL THEN v
    ELSE [v EXCEPT
            !.tasks = @ \cup {NewTask(FreshId(v.tasks), "save", "req",
                                      v.currentConversationId, msg)},
            !.sent = Append(@, [conv |-> v.currentConversationId,
                                msg |-> msg, turn |-> no])]

\* Variant: the whole list is sent, the placeholder with it.
StreamRequestWhole(msgs, convId) ==
    [conversationId |-> convId,
     messages |-> [i \in 1..Len(msgs) |->
                     [role |-> msgs[i].role, content |-> msgs[i].content]]]

\* The body of the streaming request: the messages before the placeholder,
\* each with its role and content, and the conversation id of the turn.
StreamRequest(msgs, convId) ==
    [conversationId |-> convId,
     messages |-> [i \in 1..(Len(msgs) - 1) |->
                     [role |-> msgs[i].role, content |-> msgs[i].content]]]

\* Variant: the image path inserts its placeholder first and the user
\* message after it.
RunTurnPlaceholderFirst(v, t) ==
    LET content == t.input
        prompt == PromptOf(content)
        userMsg == Msg("user", content, NoImage)
    IN  IF IsImageCommand(content)
        THEN IF prompt = <<>>
             THEN [view |-> [v EXCEPT !.messages =
                               AddMessage(@, Msg("assistant", UsageWarning, NoImage))],
                   turn |-> Ended([t EXCEPT !.kind = "image"], "usage")]
             ELSE LET v1 == [v EXCEPT !.messages = AddMessage(@,
                                       Msg("assistant", GeneratingText, NoImage))]
                      v2 == SaveMessage(v1, userMsg, t.no)
                  IN  [view |-> [v2 EXCEPT
                                   !.messages = AddMessage(@, userMsg),
                                   !.isStreaming = TRUE],
                       turn |-> [t EXCEPT !.pc = "generating", !.kind = "image"]]
        ELSE LET v1 == [v EXCEPT !.messages = AddMessage(@, userMsg)]
                 v2 == SaveMessage(v1, userMsg, t.no)
                 v3 == [v2 EXCEPT
                          !.messages = AddMessage(@, Msg("assistant", <<>>, NoImage)),
                          !.isStreaming = TRUE,
                          !.abortControllerRef = t.no]
             IN  [view |-> v3,
                  turn |-> [t EXCEPT !.pc = "fetching", !.kind = "text",
                                     !.req = StreamRequest(v3.messages, t.convId)]]

\* sendMessage from `const isImageCommand` to its next await, for a turn t
\* whose convId is settled; v is the state it starts from.
RunTurn(v, t) ==
    LET content == t.input
        prompt == PromptOf(content)
        userMsg == Msg("user", content, NoImage)
    IN  IF IsImageCommand(content)
        THEN IF prompt = <<>>
             THEN [view |-> [v EXCEPT !.messages =
                               AddMessage(@, Msg("assistant", UsageWarning, NoImage))],
                   turn |-> Ended([t EXCEPT !.kind = "image"], "usage")]
             ELSE LET v1 == [v EXCEPT !.messages = AddMessage(@, userMsg)]
                      v2 == SaveMessage(v1, userMsg, t.no)
                  IN  [view |-> [v2 EXCEPT
                                   !.messages = AddMessage(@,
                                       Msg("assistant", GeneratingText, NoImage)),
                                   !.isStreaming = TRUE],
                       turn |-> [t EXCEPT !.pc = "generating", !.kind = "image"]]
        ELSE LET v1 == [v EXCEPT !.messages = AddMessage(@, userMsg)]
                 v2 == SaveMessage(v1, userMsg, t.no)
                 v3 == [v2 EXCEPT
                          !.messages = AddMessage(@, Msg("assistant", <<>>, NoImage)),
                          !.isStreaming = TRUE,
                          !.abortControllerRef = t.no]
             IN  [view |-> v3,
                  turn |-> [t EXCEPT !.pc = "fetching", !.kind = "text",
                                     !.req = StreamRequest(v3.messages, t.convId)]]

\* Writes a view and a turn back to the state.
Commit(r) ==
    /\ messages' = r.view.messages
    /\ isStreaming' = r.view.isStreaming
    /\ currentConversationId' = r.view.currentConversationId
    /\ abortControllerRef' = r.view.abortControllerRef
    /\ tasks' = r.view.tasks
    /\ sent' = r.view.sent
    /\ turn' = r.turn

\* Variant: the finally block releases the handle and leaves the flag.
FinallyLeavesFlag(v) == [v EXCEPT !.abortControllerRef = NULL]

\* The finally block of the text path.
Finally(v) == [v EXCEPT !.isStreaming = FALSE, !.abortControllerRef = NULL]

\* Variant: the turn is given up when the conversation cannot be created.
CreateFailedAbandons(v, t) ==
    [view |-> v, turn |-> Ended([t EXCEPT !.convId = NULL], "failed")]

\* Variant: the rejection of createConversation is not caught and ends the
\* call.
CreateFailedEscapes(v, t) ==
    [view |-> v, turn |-> Ended([t EXCEPT !.convId = NULL], "rejected")]

\* sendMessage after createConversation has rejected: the error is logged and
\* the turn runs on with no conversation id.
CreateFailed(v, t) == RunTurn(v, [t EXCEPT !.convId = NULL])

\* ---------------------------------------------------------- sendMessage
\* sendMessage(content) up to its first await.  With an active conversation
\* the turn runs on at once; without one createConversation is awaited.
SendMessage(input) ==
    /\ turn.pc = "idle"
    /\ opsLeft > 0
    /\ opsLeft' = opsLeft - 1
    /\ LET t == [IdleTurn EXCEPT !.no = turn.no + 1, !.input = input,
                                 !.convId = currentConversationId]
       IN  IF currentConversationId # NULL
           THEN Commit(RunTurn(View, t))
           ELSE /\ turn' = [t EXCEPT !.pc = "ensuring"]
                /\ tasks' = tasks \cup {NewTask(FreshId(tasks), "create", "req", NULL, NoMsg)}
                /\ UNCHANGED <<messages, isStreaming, currentConversationId,
                               abortControllerRef, sent>>
    /\ UNCHANGED <<conversations, isLoadingConversations, server>>
    /\ UNCHANGED dvars

\* Variant: the stop marks the current call aborted whether or not a
\* controller is held.
StopGenerationUnguarded ==
    /\ turn' = [turn EXCEPT !.aborted = TRUE]
    /\ UNCHANGED <<store, abortControllerRef, tasks, sent, server, opsLeft>>
    /\ UNCHANGED dvars

\* stopGeneration
StopGeneration ==
    /\ turn' = IF abortControllerRef # NULL /\ abortControllerRef = turn.no
               THEN [turn EXCEPT !.aborted = TRUE]
               ELSE turn
    /\ UNCHANGED <<store, abortControllerRef, tasks, sent, server, opsLeft>>
    /\ UNCHANGED dvars

\* Variant: the accumulated response is saved when it is empty too.
CompleteTextSavesEmpty(v, t) ==
    [view |-> Finally(SaveMessage(v, Msg("assistant", t.fullResponse, NoImage), t.no)),
     turn |-> Ended(t, "completed")]

\* The text path after the loop ended without a throw: the accumulated
\* response is saved when it is not empty, then the finally block runs.
CompleteText(v, t) ==
    LET v1 == IF t.fullResponse # <<>>
              THEN SaveMessage(v, Msg("assistant", t.fullResponse, NoImage), t.no)
              ELSE v
    IN  [view |-> Finally(v1),
         turn |-> Ended(t, "completed")]

\* The catch block for an error that is not an AbortError, then finally.
FailText(v, t) ==
    [view |-> Finally([v EXCEPT !.messages = AppendToLastMessage(@, ErrorNotice)]),
     turn |-> Ended(t, "failed")]

\* Variant: an AbortError is reported like any other error.
AbortTextReported(v, t) ==
    [view |-> Finally([v EXCEPT !.messages = AppendToLastMessage(@, ErrorNotice)]),
     turn |-> Ended(t, "cancelled")]

\* Variant: the partial response is saved on an AbortError.
AbortTextSaves(v, t) ==
    LET v1 == IF t.fullResponse # <<>>
              THEN SaveMessage(v, Msg("assistant", t.fullResponse, NoImage), t.no)
              ELSE v
    IN  [view |-> Finally(v1),
         turn |-> Ended(t, "cancelled")]

\* The catch block for an AbortError, then finally.
AbortText(v, t) ==
    [view |-> Finally(v),
     turn |-> Ended(t, "cancelled")]

\* Streams the server may answer a chat request with.
TurnWires ==
    {[frags |-> <<"A", "U", "Done">>, tail |-> <<>>],
     [frags |-> <<"A", "Err">>, tail |-> <<>>],
     [frags |-> <<"Trunc", "U">>, tail |-> FragBytes("A")],
     [frags |-> <<"Done", "A">>, tail |-> <<>>]}

\* Sizes of the chunks the transport delivers, besides all that is left.
ChunkLens == {8}

TurnWire == WireOf(turn.frags) \o turn.tail

\* fetch resolves with a success status and a body: the reader is set up.
FetchOk(w) ==
    /\ turn.pc = "fetching"
    /\ ~turn.aborted
    /\ turn' = [turn EXCEPT !.pc = "reading", !.frags = w.frags, !.tail = w.tail,
                            !.gen = NewGen, !.pos = 0, !.net = "open"]
    /\ UNCHANGED <<store, abortControllerRef, tasks, sent, server, opsLeft>>
    /\ UNCHANGED dvars

\* Variant: after a failed response the request is issued once more.
FetchFailRetries ==
    /\ turn.pc = "fetching"
    /\ ~turn.aborted
    /\ turn.net = "none"
    /\ turn' = [turn EXCEPT !.net = "failed"]
    /\ UNCHANGED <<store, abortControllerRef, tasks, sent, server, opsLeft>>
    /\ UNCHANGED dvars

\* fetch rejects, or resolves with a failure status or without a body.
FetchFail ==
    /\ turn.pc = "fetching"
    /\ ~turn.aborted
    /\ Commit(FailText(View, [turn EXCEPT !.net = "failed"]))
    /\ UNCHANGED <<conversations, isLoadingConversations, server, opsLeft>>
    /\ UNCHANGED dvars

\* reader.read() delivers k bytes; every event they complete is consumed.
ReadChunk(k) ==
    /\ turn.pc = "reading"
    /\ ~turn.aborted
    /\ turn.pos + k <= Len(TurnWire)
    /\ k \in ChunkLens \/ turn.pos + k = Len(TurnWire)
    /\ LET r == GenChunk(turn.gen, SubSeq(TurnWire, turn.pos + 1, turn.pos + k))
           c == Consume(r.events)
           v == [View EXCEPT !.messages = AppendAll(@, c.deltas)]
           t == [turn EXCEPT !.gen = r.gen, !.pos = turn.pos + k,
                             !.fullResponse = @ \o Flatten(c.deltas)]
       IN  Commit(CASE c.status = "error" -> FailText(v, t)
                    [] c.status = "done" -> CompleteText(v, t)
                    [] OTHER -> [view |-> v, turn |-> t])
    /\ UNCHANGED <<conversations, isLoadingConversations, server, opsLeft>>
    /\ UNCHANGED dvars

\* Variant: the end of the transport without a done event is a failure.
ReadEndRejects ==
    /\ turn.pc = "reading"
    /\ ~turn.aborted
    /\ turn.pos = Len(TurnWire)
    /\ Commit(FailText(View, [turn EXCEPT !.gen = GenEnd(@)]))
    /\ UNCHANGED <<conversations, isLoadingConversations, server, opsLeft>>
    /\ UNCHANGED dvars

\* reader.read() reports the end of the transport: the generator returns.
ReadEnd ==
    /\ turn.pc = "reading"
    /\ ~turn.aborted
    /\ turn.pos = Len(TurnWire)
    /\ Commit(CompleteText(View, [turn EXCEPT !.gen = GenEnd(@)]))
    /\ UNCHANGED <<conversations, isLoadingConversations, server, opsLeft>>
    /\ UNCHANGED dvars

\* reader.read() rejects with a transport error.
ReadFail ==
    /\ turn.pc = "reading"
    /\ ~turn.aborted
    /\ Commit(FailText(View, [turn EXCEPT !.net = "failed"]))
    /\ UNCHANGED <<conversations, isLoadingConversations, server, opsLeft>>
    /\ UNCHANGED dvars

\* The pending fetch or read rejects with an AbortError.
AbortObserved ==
    /\ turn.pc \in {"fetching", "reading"}
    /\ turn.aborted
    /\ Commit(AbortText(View, turn))
    /\ UNCHANGED <<conversations, isLoadingConversations, server, opsLeft>>
    /\ UNCHANGED dvars

\* generateImage resolves.
ImageOk(img) ==
    /\ turn.pc = "generating"
    /\ LET caption == ImageCaption(PromptOf(turn.input))
           v1 == [View EXCEPT !.messages =
                     SetLastMessageImage(UpdateLastMessage(@, caption), img)]
           v2 == SaveMessage(v1, Msg("assistant", caption, img), turn.no)
       IN  Commit([view |-> [v2 EXCEPT !.isStreaming = FALSE],
                   turn |-> Ended([turn EXCEPT !.image = img], "image_ok")])
    /\ UNCHANGED <<conversations, isLoadingConversations, server, opsLeft>>
    /\ UNCHANGED dvars

\* generateImage rejects.
ImageFail ==
    /\ turn.pc = "generating"
    /\ Commit([view |-> [View EXCEPT
                           !.messages = UpdateLastMessage(@, ImageFailedText),
                           !.isStreaming = FALSE],
               turn |-> Ended(turn, "image_failed")])
    /\ UNCHANGED <<conversations, isLoadingConversations, server, opsLeft>>
    /\ UNCHANGED dvars

\* --------------------------------------------------- storage collaborator
Replace(k, k2) == (tasks \ {k}) \cup {k2}

\* The collaborator carries out the request of k and answers with success.
ServerOk(k) ==
    /\ k \in tasks
    /\ k.pc = "req"
    /\ CASE k.op = "save" ->
              /\ k.conv \in srvConvs
              /\ srvMsgs' = [srvMsgs EXCEPT ![k.conv] = Append(@, k.msg)]
              /\ tasks' = Replace(k, [k EXCEPT !.pc = "req_ok"])
              /\ UNCHANGED <<srvConvs, srvNext>>
         [] k.op = "delete" ->
              /\ k.conv \in srvConvs
              /\ srvConvs' = srvConvs \ {k.conv}
              /\ srvMsgs' = [srvMsgs EXCEPT ![k.conv] = <<>>]
              /\ tasks' = Replace(k, [k EXCEPT !.pc = "req_ok"])
              /\ UNCHANGED srvNext
         [] k.op = "load" ->
              /\ k.conv \in srvConvs
              /\ tasks' = Replace(k, [k EXCEPT !.pc = "req_ok",
                                              !.hist = srvMsgs[k.conv]])
              /\ UNCHANGED server
         [] k.op = "create" ->
              /\ srvNext \in ConvIds
              /\ srvConvs' = srvConvs \cup {srvNext}
              /\ srvNext' = srvNext + 1
              /\ tasks' = Replace(k, [k EXCEPT !.pc = "req_ok", !.conv = srvNext])
              /\ UNCHANGED srvMsgs
    /\ UNCHANGED <<store, abortControllerRef, turn, sent, opsLeft>>
    /\ UNCHANGED dvars

\* conversationsApi.list() is answered with the conversations of that moment.
ServerListOk(k) ==
    /\ k \in tasks
    /\ k.pc = "list"
    /\ tasks' = Replace(k, [k EXCEPT !.pc = "list_ok",
                                    !.snap = Snapshot(srvConvs)])
    /\ UNCHANGED <<store, abortControllerRef, turn, sent, server, opsLeft>>
    /\ UNCHANGED dvars

\* ---------------------------------------------- chat store (asynchronous)
\* A request of a store operation is in flight at pc "req" (the operation's
\* own request) or "list" (the list request of loadConversations); "req_ok"
\* and "list_ok" hold the collaborator's answer until the store takes it up.
\* A request that fails changes nothing at the collaborator: the store's
\* catch block runs in the step that settles it.
Settles(k, ph) == k \in tasks /\ k.pc \in {ph, ph \o "_ok"}

Succeeded(k) == k.pc \in {"req_ok", "list_ok"}

\* Variant: a failed list request empties the list.
ListResultEmpties(k, convs) == IF Succeeded(k) THEN k.snap ELSE {}

\* Variant: the list of a response is merged into the list held.
ListResultMerges(k, convs) == IF Succeeded(k) THEN k.snap \cup convs ELSE convs

\* loadConversations after its list request settled.
ListResult(k, convs) == IF Succeeded(k) THEN k.snap ELSE convs

\* saveMessage after the append request settled: on success the list is
\* refreshed, on failure the error is logged.
SaveMessageSettled(k) ==
    /\ Settles(k, "req")
    /\ k.op = "save"
    /\ IF Succeeded(k)
       THEN /\ tasks' = Replace(k, [k EXCEPT !.pc = "list"])
            /\ isLoadingConversations' = TRUE
       ELSE /\ tasks' = tasks \ {k}
            /\ UNCHANGED isLoadingConversations
    /\ UNCHANGED <<messages, isStreaming, currentConversationId, conversations,
                   abortControllerRef, turn, sent, server, opsLeft>>
    /\ UNCHANGED dvars

\* deleteConversation(id) up to its first await.
DeleteConversation(id) ==
    /\ opsLeft > 0
    /\ opsLeft' = opsLeft - 1
    /\ \E c \in conversations : c.id = id
    /\ tasks' = tasks \cup {NewTask(FreshId(tasks), "delete", "req", id, NoMsg)}
    /\ UNCHANGED <<store, abortControllerRef, turn, sent, server>>
    /\ UNCHANGED dvars

\* Variant: the id is cleared and the messages stay.
ClearedIdOnly == [currentConversationId |-> NULL, messages |-> messages]

\* The state deleteConversation leaves when the deleted conversation is the
\* active one.
ClearedAfterDelete == [currentConversationId |-> NULL, messages |-> <<>>]

\* Variant: a successful delete takes the conversation out of the cache
\* at once.
DeleteSettledPrunesCache(k) ==
    /\ Settles(k, "req")
    /\ k.op = "delete"
    /\ IF Succeeded(k)
       THEN /\ IF currentConversationId = k.conv
               THEN /\ currentConversationId' = ClearedAfterDelete.currentConversationId
                    /\ messages' = ClearedAfterDelete.messages
               ELSE UNCHANGED <<currentConversationId, messages>>
            /\ tasks' = Replace(k, [k EXCEPT !.pc = "list"])
            /\ isLoadingConversations' = TRUE
            /\ conversations' = {c \in conversations : c.id # k.conv}
       ELSE /\ tasks' = tasks \ {k}
            /\ UNCHANGED <<currentConversationId, messages,
                           isLoadingConversations, conversations>>
    /\ UNCHANGED <<isStreaming, abortControllerRef, turn, sent, server, opsLeft>>
    /\ UNCHANGED dvars

\* Variant: a successful delete clears the active conversation whichever
\* conversation was deleted.
DeleteSettledClearsAlways(k) ==
    /\ Settles(k, "req")
    /\ k.op = "delete"
    /\ IF Succeeded(k)
       THEN /\ currentConversationId' = ClearedAfterDelete.currentConversationId
            /\ messages' = ClearedAfterDelete.messages
            /\ tasks' = Replace(k, [k EXCEPT !.pc = "list"])
            /\ isLoadingConversations' = TRUE
       ELSE /\ tasks' = tasks \ {k}
            /\ UNCHANGED <<currentConversationId, messages, isLoadingConversations>>
    /\ UNCHANGED <<isStreaming, conversations, abortControllerRef, turn,
                   sent, server, opsLeft>>
    /\ UNCHANGED dvars

\* deleteConversation after the delete request settled.
DeleteSettled(k) ==
    /\ Settles(k, "req")
    /\ k.op = "delete"
    /\ IF Succeeded(k)
       THEN /\ IF currentConversationId = k.conv
               THEN /\ currentConversationId' = ClearedAfterDelete.currentConversationId
                    /\ messages' = ClearedAfterDelete.messages
               ELSE UNCHANGED <<currentConversationId, messages>>
            /\ tasks' = Replace(k, [k EXCEPT !.pc = "list"])
            /\ isLoadingConversations' = TRUE
       ELSE /\ tasks' = tasks \ {k}
            /\ UNCHANGED <<currentConversationId, messages, isLoadingConversations>>
    /\ UNCHANGED <<isStreaming, conversations, abortControllerRef, turn,
                   sent, server, opsLeft>>
    /\ UNCHANGED dvars

\* loadConversation(id) up to its first await (a click in the sidebar).
LoadConversation(id) ==
    /\ opsLeft > 0
    /\ opsLeft' = opsLeft - 1
    /\ \E c \in conversations : c.id = id
    /\ tasks' = tasks \cup {NewTask(FreshId(tasks), "load", "req", id, NoMsg)}
    /\ UNCHANGED <<store, abortControllerRef, turn, sent, server>>
    /\ UNCHANGED dvars

\* Variant: a failed get request still makes the conversation the current
\* one.
LoadSettledSwapsId(k) ==
    /\ Settles(k, "req")
    /\ k.op = "load"
    /\ currentConversationId' = k.conv
    /\ IF Succeeded(k)
       THEN messages' = [i \in 1..Len(k.hist) |->
                           Msg(k.hist[i].role, k.hist[i].content, k.hist[i].image)]
       ELSE UNCHANGED messages
    /\ tasks' = tasks \ {k}
    /\ UNCHANGED <<isStreaming, conversations, isLoadingConversations,
                   abortControllerRef, turn, sent, server, opsLeft>>
    /\ UNCHANGED dvars

\* loadConversation after the get request settled.
LoadSettled(k) ==
    /\ Settles(k, "req")
    /\ k.op = "load"
    /\ IF Succeeded(k)
       THEN /\ currentConversationId' = k.conv
            /\ messages' = [i \in 1..Len(k.hist) |->
                              Msg(k.hist[i].role, k.hist[i].content, k.hist[i].image)]
       ELSE UNCHANGED <<currentConversationId, messages>>
    /\ tasks' = tasks \ {k}
    /\ UNCHANGED <<isStreaming, conversations, isLoadingConversations,
                   abortControllerRef, turn, sent, server, opsLeft>>
    /\ UNCHANGED dvars

\* clearMessages (the New Chat button).
ClearMessages ==
    /\ opsLeft > 0
    /\ opsLeft' = opsLeft - 1
    /\ messages' = <<>>
    /\ currentConversationId' = NULL
    /\ UNCHANGED <<isStreaming, conversations, isLoadingConversations,
                   abortControllerRef, turn, tasks, sent, server>>
    /\ UNCHANGED dvars

\* loadConversations after its list request settled, for the callers that
\* end with it (the sidebar on mount, saveMessage, deleteConversation).
ListSettled(k) ==
    /\ Settles(k, "list")
    /\ k.op \in {"list", "save", "delete"}
    /\ conversations' = ListResult(k, conversations)
    /\ isLoadingConversations' = FALSE
    /\ tasks' = tasks \ {k}
    /\ UNCHANGED <<messages, isStreaming, currentConversationId,
                   abortControllerRef, turn, sent, server, opsLeft>>
    /\ UNCHANGED dvars

\* createConversation after the create request settled: on success the list
\* is refreshed; on failure it rethrows, sendMessage logs and runs on
\* without a conversation id.
CreateSettled(k) ==
    /\ Settles(k, "req")
    /\ k.op = "create"
    /\ turn.pc = "ensuring"
    /\ IF Succeeded(k)
       THEN /\ tasks' = Replace(k, [k EXCEPT !.pc = "list"])
            /\ isLoadingConversations' = TRUE
            /\ UNCHANGED <<messages, isStreaming, currentConversationId,
                           abortControllerRef, turn, sent>>
       ELSE /\ Commit(CreateFailed([View EXCEPT !.tasks = tasks \ {k}], turn))
            /\ UNCHANGED isLoadingConversations
    /\ UNCHANGED <<conversations, server, opsLeft>>
    /\ UNCHANGED dvars

\* Variant: the new conversation becomes the active one with the messages
\* left as they are.
CreateListSettledKeepsMessages(k) ==
    /\ Settles(k, "list")
    /\ k.op = "create"
    /\ turn.pc = "ensuring"
    /\ conversations' = ListResult(k, conversations)
    /\ isLoadingConversations' = FALSE
    /\ Commit(RunTurn([View EXCEPT !.tasks = tasks \ {k},
                                   !.currentConversationId = k.conv],
                      [turn EXCEPT !.convId = k.conv]))
    /\ UNCHANGED <<server, opsLeft>>
    /\ UNCHANGED dvars

\* createConversation after its list refresh settled: the new conversation
\* becomes the active one with no messages, and sendMessage runs on.
CreateListSettled(k) ==
    /\ Settles(k, "list")
    /\ k.op = "create"
    /\ turn.pc = "ensuring"
    /\ conversations' = ListResult(k, conversations)
    /\ isLoadingConversations' = FALSE
    /\ Commit(RunTurn([View EXCEPT !.tasks = tasks \ {k},
                                   !.currentConversationId = k.conv,
                                   !.messages = <<>>],
                      [turn EXCEPT !.convId = k.conv]))
    /\ UNCHANGED <<server, opsLeft>>
    /\ UNCHANGED dvars

\* ------------------------------------------------------------------ system
\* The state after the page has mounted: the store as created, the list
\* request of the sidebar in flight, and a storage that holds one earlier
\* conversation.
OldConversation ==
    <<Msg("user", <<"hi">>, NoImage), Msg("assistant", <<"a">>, NoImage)>>

Mounted ==
    /\ messages = <<>>
    /\ isStreaming = FALSE
    /\ currentConversationId = NULL
    /\ conversations = {}
    /\ isLoadingConversations = TRUE
    /\ abortControllerRef = NULL
    /\ turn = IdleTurn
    /\ tasks = {NewTask(1, "list", "list", NULL, NoMsg)}
    /\ sent = <<>>
    /\ srvConvs = {1}
    /\ srvMsgs = [i \in ConvIds |-> IF i = 1 THEN OldConversation ELSE <<>>]
    /\ srvNext = 2

MInit ==
    /\ Mounted
    /\ opsLeft = MaxOps

\* No sendMessage in flight and every store operation settled.
Quiet ==
    /\ turn.pc = "idle"
    /\ tasks = {}

\* -------------------------------------------------------- decoder harness
dWire == WireOf(dFrags) \o dTail

DInit ==
    /\ MInit
    /\ dFrags \in FragSeqs
    /\ dTail \in Tails
    /\ dPos = 0
    /\ dGen = NewGen
    /\ dYielded = <<>>

\* reader.read() resolves with the next k bytes of the transport.
DRead(k) ==
    /\ dGen.state = "running"
    /\ dPos + k <= Len(dWire)
    /\ LET r == GenChunk(dGen, SubSeq(dWire, dPos + 1, dPos + k))
       IN  /\ dGen' = r.gen
           /\ dYielded' = dYielded \o r.events
    /\ dPos' = dPos + k
    /\ UNCHANGED <<dFrags, dTail>>
    /\ UNCHANGED mvars

\* reader.read() resolves with done: the loop breaks.
DReadEnd ==
    /\ dGen.state = "running"
    /\ dPos = Len(dWire)
    /\ dGen' = GenEnd(dGen)
    /\ UNCHANGED <<dFrags, dTail, dPos, dYielded>>
    /\ UNCHANGED mvars

DNext ==
    \/ \E k \in 1..Len(dWire) : DRead(k)
    \/ DReadEnd

vars == <<mvars, dvars>>

SpecDecoder == DInit /\ [][DNext]_vars

\* ------------------------------------------------------------ the client
DIdle ==
    /\ dFrags = <<>>
    /\ dTail = <<>>
    /\ dPos = 0
    /\ dGen = NewGen
    /\ dYielded = <<>>

Init == MInit /\ DIdle

\* The user starts an operation only when the one before has settled; a
\* stop may come at any moment.
Next ==
    \/ Quiet /\ \E input \in Inputs : SendMessage(input)
    \/ StopGeneration
    \/ Quiet /\ \E id \in ConvIds : DeleteConversation(id)
    \/ Quiet /\ \E id \in ConvIds : LoadConversation(id)
    \/ Quiet /\ ClearMessages
    \/ \E k \in tasks : ServerOk(k)
    \/ \E k \in tasks : ServerListOk(k)
    \/ \E k \in tasks : SaveMessageSettled(k)
    \/ \E k \in tasks : DeleteSettled(k)
    \/ \E k \in tasks : LoadSettled(k)
    \/ \E k \in tasks : ListSettled(k)
    \/ \E k \in tasks : CreateSettled(k)
    \/ \E k \in tasks : CreateListSettled(k)
    \/ \E w \in TurnWires : FetchOk(w)
    \/ FetchFail
    \/ \E n \in 1..Len(TurnWire) : ReadChunk(n)
    \/ ReadEnd
    \/ ReadFail
    \/ AbortObserved
    \/ \E img \in Images : ImageOk(img)
    \/ ImageFail

Spec == Init /\ [][Next]_vars

\* ------------------------------------------------- the client's page
\* The client as the page drives it.  A send comes whenever the page offers
\* it, in flight or not: by Enter or the send button while isStreaming is
\* false, by a suggestion card while the message list is empty.  Stop is
\* offered while isStreaming is true, New Chat at any moment.  As before, the
\* user starts a turn after a settled one, selects and deletes only when the
\* client is quiet.  The model follows the client up to the start of a
\* sendMessage call that overlaps one in flight, which it records, and no
\* further.
UIInit ==
    /\ Mounted
    /\ opsLeft = MaxUIOps
    /\ DIdle

\* sendMessage is called while a call is in flight.
OverlappingSend ==
    /\ turn.pc # "idle"
    /\ opsLeft > 0
    /\ opsLeft' = opsLeft - 1
    /\ turn' = [turn EXCEPT !.overlapped = TRUE]
    /\ UNCHANGED <<store, abortControllerRef, tasks, sent, server>>
    /\ UNCHANGED dvars

\* handleSubmit, reached by Enter in the text area or by the send button
\* while isStreaming is false: the trimmed value is sent if it is not empty.
UISubmit(input) ==
    /\ ~isStreaming
    /\ Trim(input) # <<>>
    /\ \/ Quiet /\ SendMessage(Trim(input))
       \/ OverlappingSend

\* A suggestion card, shown while the message list is empty.
UISuggestion ==
    /\ messages = <<>>
    /\ \/ Quiet /\ SendMessage(<<"hi">>)
       \/ OverlappingSend

\* Enter in the text area or the stop button while isStreaming is true.
UIStop ==
    /\ isStreaming
    /\ StopGeneration

\* No step of the client is followed after an overlapping call began.
Followed == ~turn.overlapped

UINext ==
    \/ Followed /\ \E input \in Inputs : UISubmit(input)
    \/ Followed /\ UISuggestion
    \/ Followed /\ UIStop
    \/ Followed /\ ClearMessages
    \/ Followed /\ Quiet /\ \E id \in ConvIds : LoadConversation(id)
    \/ Followed /\ Quiet /\ \E id \in ConvIds : DeleteConversation(id)
    \/ Followed /\ \E k \in tasks : ServerOk(k)
    \/ Followed /\ \E k \in tasks : ServerListOk(k)
    \/ Followed /\ \E k \in tasks : SaveMessageSettled(k)
    \/ Followed /\ \E k \in tasks : DeleteSettled(k)
    \/ Followed /\ \E k \in tasks : LoadSettled(k)
    \/ Followed /\ \E k \in tasks : ListSettled(k)
    \/ Followed /\ \E k \in tasks : CreateSettled(k)
    \/ Followed /\ \E k \in tasks : CreateListSettled(k)
    \/ Followed /\ \E w \in TurnWires : FetchOk(w)
    \/ Followed /\ FetchFail
    \/ Followed /\ \E n \in 1..Len(TurnWire) : ReadChunk(n)
    \/ Followed /\ ReadEnd
    \/ Followed /\ ReadFail
    \/ Followed /\ AbortObserved
    \/ Followed /\ \E img \in Images : ImageOk(img)
    \/ Followed /\ ImageFail

SpecUI == UIInit /\ [][UINext]_vars

\* ------------------------------------------- operations that overlap
\* The client with a user who does not wait: New Chat, a click on a
\* conversation of the sidebar and its delete button come at any moment,
\* while a turn streams and while earlier requests are in flight; a send
\* comes whenever no sendMessage call is in flight.  The storage holds two
\* earlier conversations, the sidebar has its list, and every request is
\* answered: with an error only when its conversation does not exist, so
\* that no claim about overlapping operations fails by a failure of the
\* network.
MaxAsyncOps == 2

OtherConversation ==
    <<Msg("user", <<"hi">>, NoImage), Msg("assistant", <<"u">>, NoImage)>>

AsyncInit ==
    /\ messages = <<>>
    /\ isStreaming = FALSE
    /\ currentConversationId = NULL
    /\ conversations = Snapshot({1, 2})
    /\ isLoadingConversations = FALSE
    /\ abortControllerRef = NULL
    /\ turn = IdleTurn
    /\ tasks = {}
    /\ sent = <<>>
    /\ srvConvs = {1, 2}
    /\ srvMsgs = [i \in ConvIds |-> CASE i = 1 -> OldConversation
                                      [] i = 2 -> OtherConversation
                                      [] OTHER -> <<>>]
    /\ srvNext = 3
    /\ opsLeft = MaxAsyncOps
    /\ DIdle

\* The record of a selection in the sequence of the requests sent.
Selection(id) == [conv |-> id, msg |-> NoMsg, turn |-> 0]

\* handleSelectConversation(id), a click on a conversation of the sidebar:
\* loadConversation(id) up to its first await.  The get request is recorded
\* in sent, after the requests issued before it.
HandleSelectConversation(id) ==
    /\ opsLeft > 0
    /\ opsLeft' = opsLeft - 1
    /\ \E c \in conversations : c.id = id
    /\ tasks' = tasks \cup {NewTask(FreshId(tasks), "load", "req", id, NoMsg)}
    /\ sent' = Append(sent, Selection(id))
    /\ UNCHANGED <<store, abortControllerRef, turn, server>>
    /\ UNCHANGED dvars

\* The request of k is answered: it succeeded, or it failed for a
\* conversation the storage does not hold.
Answered(k) ==
    \/ Succeeded(k)
    \/ /\ k.pc = "req"
       /\ k.op \in {"save", "delete", "load"}
       /\ k.conv \notin srvConvs

AsyncNext ==
    \/ \E input \in Inputs : SendMessage(input)
    \/ UIStop
    \/ ClearMessages
    \/ \E id \in ConvIds : HandleSelectConversation(id)
    \/ \E id \in ConvIds : DeleteConversation(id)
    \/ \E k \in tasks : ServerOk(k)
    \/ \E k \in tasks : ServerListOk(k)
    \/ \E k \in tasks : Answered(k) /\ SaveMessageSettled(k)
    \/ \E k \in tasks : Answered(k) /\ DeleteSettled(k)
    \/ \E k \in tasks : Answered(k) /\ LoadSettled(k)
    \/ \E k \in tasks : Answered(k) /\ ListSettled(k)
    \/ \E k \in tasks : Answered(k) /\ CreateSettled(k)
    \/ \E k \in tasks : Answered(k) /\ CreateListSettled(k)
    \/ \E w \in TurnWires : FetchOk(w)
    \/ \E n \in 1..Len(TurnWire) : ReadChunk(n)
    \/ ReadEnd
    \/ AbortObserved
    \/ \E img \in Images : ImageOk(img)

SpecAsync == AsyncInit /\ [][AsyncNext]_vars

\* ------------------------------------------------- the sidebar alone
\* The client of a user who works with the sidebar only and does not wait:
\* clicks on conversations, on their delete buttons and on New Chat, with
\* the requests of earlier clicks in flight.  No message is sent, so that
\* the storage changes by this client's deletions only.
MaxSidebarOps == 2

SidebarInit ==
    /\ messages = <<>>
    /\ isStreaming = FALSE
    /\ currentConversationId = NULL
    /\ conversations = Snapshot({1, 2})
    /\ isLoadingConversations = FALSE
    /\ abortControllerRef = NULL
    /\ turn = IdleTurn
    /\ tasks = {}
    /\ sent = <<>>
    /\ srvConvs = {1, 2}
    /\ srvMsgs = [i \in ConvIds |-> CASE i = 1 -> OldConversation
                                      [] i = 2 -> OtherConversation
                                      [] OTHER -> <<>>]
    /\ srvNext = 3
    /\ opsLeft = MaxSidebarOps
    /\ DIdle

SidebarNext ==
    \/ ClearMessages
    \/ \E id \in ConvIds : HandleSelectConversation(id)
    \/ \E id \in ConvIds : DeleteConversation(id)
    \/ \E k \in tasks : ServerOk(k)
    \/ \E k \in tasks : ServerListOk(k)
    \/ \E k \in tasks : Answered(k) /\ DeleteSettled(k)
    \/ \E k \in tasks : Answered(k) /\ LoadSettled(k)
    \/ \E k \in tasks : Answered(k) /\ ListSettled(k)

SpecSidebar == SidebarInit /\ [][SidebarNext]_vars

\* ------------------------------------------------- the store operations
\* The synchronous operations of the store that rewrite the last message,
\* applied to a message list of any shape.
StoreMessages ==
    {Msg(r, c, NoImage) : r \in {"user", "assistant"}, c \in {<<>>, <<"a">>}}

StoreLists == UNION {[1..n -> StoreMessages] : n \in 0..MaxMsgs}

Deltas == {<<>>, <<"a">>, <<"u">>}

StoreInit ==
    /\ messages \in StoreLists
    /\ isStreaming \in BOOLEAN
    /\ currentConversationId \in {NULL, 1}
    /\ conversations = Snapshot({1})
    /\ isLoadingConversations = FALSE
    /\ abortControllerRef = NULL
    /\ turn = IdleTurn
    /\ tasks = {}
    /\ sent = <<>>
    /\ srvConvs = {1}
    /\ srvMsgs = [i \in ConvIds |-> IF i = 1 THEN OldConversation ELSE <<>>]
    /\ srvNext = 2
    /\ opsLeft = MaxStoreOps
    /\ DIdle

\* set((state) => ({messages: ...})): the store is written in messages only.
WriteMessages(msgs) ==
    /\ opsLeft > 0
    /\ opsLeft' = opsLeft - 1
    /\ messages' = msgs
    /\ UNCHANGED <<isStreaming, currentConversationId, conversations,
                   isLoadingConversations, abortControllerRef, turn, tasks,
                   sent, server>>
    /\ UNCHANGED dvars

StoreAppendToLastMessage(delta) ==
    WriteMessages(AppendToLastMessage(messages, delta))

StoreUpdateLastMessage(content) ==
    WriteMessages(UpdateLastMessage(messages, content))

StoreSetLastMessageImage(image) ==
    WriteMessages(SetLastMessageImage(messages, image))

StoreNext ==
    \/ \E delta \in Deltas : StoreAppendToLastMessage(delta)
    \/ \E content \in Deltas : StoreUpdateLastMessage(content)
    \/ \E image \in Images : StoreSetLastMessageImage(image)

SpecStore == StoreInit /\ [][StoreNext]_vars

\* The network operations a turn awaits: the streaming request, the reads of
\* its body, and the image generation.  Each of them settles in time.
NetworkSettles ==
    \/ FetchFail
    \/ ReadFail
    \/ ReadEnd
    \/ AbortObserved
    \/ ImageFail
    \/ \E w \in TurnWires : FetchOk(w)
    \/ \E img \in Images : ImageOk(img)
    \/ \E n \in 1..Len(TurnWire) : ReadChunk(n)

\* The same client with MaxLiveOps user operations to come.
LiveInit ==
    /\ Mounted
    /\ opsLeft = MaxLiveOps
    /\ DIdle

SpecLive == LiveInit /\ [][Next]_vars /\ WF_vars(NetworkSettles)

\* ------------------------------------------------------ decoder properties
\* The events the generator yields when the whole wire arrives as one chunk.
OneChunk(wire) == GenChunk(NewGen, wire).events

HasDone(evs) == \E i \in 1..Len(evs) : evs[i].done

RECURSIVE UpToDone(_)
UpToDone(evs) ==
    IF evs = <<>> THEN <<>>
    ELSE IF Head(evs).done THEN <<Head(evs)>>
    ELSE <<Head(evs)>> \o UpToDone(Tail(evs))

\* The events of the well-formed fragments the server sent, in wire order.
RECURSIVE ValidEvents(_)
ValidEvents(frags) ==
    IF frags = <<>> THEN <<>>
    ELSE (IF FragValid(Head(frags)) THEN <<FragEvent(Head(frags))>> ELSE <<>>)
         \o ValidEvents(Tail(frags))

\* C1: however the wire is cut into chunks, once the generator has finished
\* it has yielded exactly the events it yields when the same bytes arrive as
\* one single chunk.
C1_ChunkBoundaryIndependence ==
    dGen.state = "returned" => dYielded = OneChunk(dWire)

C1_Witness ==
    /\ dGen.state = "returned"
    /\ dGen.reads >= 4
    /\ Len(dYielded) >= 2
    /\ dTail # <<>>

\* C2: a prefixed fragment that fails to parse is dropped and the stream goes
\* on: the generator yields the events of all well-formed fragments, in wire
\* order, up to and including the first done event.
C2_MalformedFragmentDropped ==
    dGen.state = "returned" => dYielded = UpToDone(ValidEvents(dFrags))

C2_Witness ==
    /\ dGen.state = "returned"
    /\ \E i \in 1..Len(dFrags) : \E j \in 1..Len(dFrags) :
          /\ i < j
          /\ dFrags[i] = "Trunc"
          /\ FragValid(dFrags[j])
          /\ \A h \in 1..j : dFrags[h] # "Done"
    /\ dYielded # <<>>

\* C3: a done event is the last event yielded; once it has been yielded the
\* generator yields nothing more and reads the transport no more, whatever
\* follows in the same chunk or is still queued in the transport.
C3_DoneEndsTheStream ==
    /\ [](\A i \in 1..Len(dYielded) : dYielded[i].done => i = Len(dYielded))
    /\ [][HasDone(dYielded) =>
             (dYielded' = dYielded /\ dGen'.reads = dGen.reads /\ dPos' = dPos)]_vars

C3_Witness ==
    /\ HasDone(dYielded)
    /\ dGen.state = "returned"
    /\ dPos = Len(dWire)
    /\ \E i \in 1..(Len(dFrags) - 1) : dFrags[i] = "Done" /\ FragValid(dFrags[i + 1])

\* --------------------------------------------------------- turn properties
TurnEnds == turn.pc # "idle" /\ turn'.pc = "idle"

\* The text of the events that come before the first done event.
RECURSIVE TextBeforeDone(_)
TextBeforeDone(evs) ==
    IF evs = <<>> \/ Head(evs).done THEN <<>>
    ELSE Head(evs).content \o TextBeforeDone(Tail(evs))

NoErrorEvent(frags) ==
    \A i \in 1..Len(ValidEvents(frags)) : ~ValidEvents(frags)[i].error

\* The append requests of turn no that carry a message of the given role.
Sends(no, role) ==
    {i \in 1..Len(sent) : sent[i].turn = no /\ sent[i].msg.role = role}

\* C4: a text turn that is not stopped, whose transport does not fail and
\* whose events hold no error ends as a completion: the placeholder holds the
\* contents of the events before the first done event, in order, and
\* isStreaming is false.
C4_TextTurnRoundTrip ==
    [][(/\ TurnEnds
        /\ turn'.kind = "text"
        /\ ~turn.aborted
        /\ turn'.net = "open"
        /\ NoErrorEvent(turn.frags))
       => /\ turn'.outcome = "completed"
          /\ Last(messages').role = "assistant"
          /\ Last(messages').content = TextBeforeDone(ValidEvents(turn.frags))
          /\ ~isStreaming']_vars

C4_Witness ==
    /\ turn.outcome = "completed"
    /\ turn.net = "open"
    /\ turn.fullResponse = <<"a", "u">>
    /\ Last(messages).content = <<"a", "u">>
    /\ ~isStreaming

\* C5: a stop during a text turn changes no message; from the stop on no
\* delta and no error notice is appended, and the turn ends cancelled with the
\* placeholder holding the deltas appended before the stop and isStreaming
\* false.
C5_StopKeepsPartialContent ==
    /\ [][(~turn.aborted /\ turn'.aborted) => messages' = messages]_vars
    /\ [][(turn.aborted /\ turn.pc # "idle")
          => /\ messages' = messages
             /\ turn'.pc = "idle"
                => /\ turn'.outcome = "cancelled"
                   /\ Last(messages').role = "assistant"
                   /\ Last(messages').content = turn.fullResponse
                   /\ ~isStreaming']_vars

C5_Witness ==
    /\ turn.outcome = "cancelled"
    /\ turn.fullResponse # <<>>
    /\ Last(messages).content = turn.fullResponse
    /\ ~isStreaming

\* C6: a text turn that ended by cancellation has sent no append request
\* for an assistant message.
C6_CancelledTurnNotPersisted ==
    turn.outcome = "cancelled" => Sends(turn.no, "assistant") = {}

C6_Witness ==
    /\ turn.outcome = "cancelled"
    /\ turn.fullResponse # <<>>
    /\ currentConversationId # NULL
    /\ Sends(turn.no, "user") # {}

\* C7: saveMessage without an active conversation issues no request and
\* changes nothing: in every state with currentConversationId null the call
\* returns the state it was given, and no step that ends with it null issues
\* an append request.
C7_SaveWithoutConversation ==
    /\ [](currentConversationId = NULL =>
            \A role \in {"user", "assistant"} :
               SaveMessage(View, Msg(role, <<"a">>, NoImage), turn.no) = View)
    /\ [][currentConversationId' = NULL =>
            /\ sent' = sent
            /\ \A k \in tasks' : (k.op = "save" /\ k.pc = "req") => k \in tasks]_vars

C7_Witness ==
    /\ currentConversationId = NULL
    /\ turn.pc = "reading"
    /\ turn.convId = NULL
    /\ Len(messages) = 2
    /\ sent = <<>>
    /\ \A k \in tasks : k.op # "save"

\* C8: when the delete request for the active conversation has succeeded,
\* the step that takes up the answer empties messages and clears
\* currentConversationId together and starts the list refresh; the answer to
\* that refresh no longer holds the deleted conversation.
C8_DeleteActiveConversation ==
    /\ [][\A k \in tasks :
            (/\ k.op = "delete"
             /\ k.pc = "req_ok"
             /\ k \notin tasks'
             /\ currentConversationId = k.conv)
            => /\ messages' = <<>>
               /\ currentConversationId' = NULL
               /\ isLoadingConversations'
               /\ [k EXCEPT !.pc = "list"] \in tasks']_vars
    /\ [](\A k \in tasks :
            (k.op = "delete" /\ k.pc = "list_ok") => \A c \in k.snap : c.id # k.conv)

C8_Witness ==
    /\ turn.no = 1
    /\ turn.pc = "idle"
    /\ Len(sent) >= 1
    /\ messages = <<>>
    /\ currentConversationId = NULL
    /\ \E k \in tasks : k.op = "delete" /\ k.pc = "list" /\ k.conv = turn.convId

\* The messages an image turn has produced while the generation is awaited.
ImageTurnPending ==
    /\ PromptOf(turn.input) # <<>>
    /\ Len(messages) >= 2
    /\ messages[Len(messages) - 1] = Msg("user", turn.input, NoImage)
    /\ Last(messages) = Msg("assistant", GeneratingText, NoImage)

UserMessageSent ==
    \E i \in 1..Len(sent) :
        sent[i] = [conv |-> currentConversationId,
                   msg |-> Msg("user", turn.input, NoImage), turn |-> turn.no]

\* The step in which generateImage resolves.
ImageSucceeds == turn.pc = "generating" /\ turn'.pc = "idle" /\ turn'.outcome = "image_ok"

\* What that step does to the message list.
ImageDelivered ==
    /\ Len(messages') = Len(messages)
    /\ Front(messages') = Front(messages)
    /\ Last(messages').role = "assistant"
    /\ IsPrefixOf(<<"IMAGE_FOR">>, Last(messages').content)
    /\ turn'.image \in Images
    /\ Last(messages').image = turn'.image

FinalMessageSent ==
    /\ Len(sent') = Len(sent) + 1
    /\ Last(sent') = [conv |-> currentConversationId', msg |-> Last(messages'),
                      turn |-> turn'.no]

\* C9 as stated: an image command with a prompt, whose generation succeeds,
\* produces the user message with the input as content and sends it to
\* storage, then the placeholder, then replaces the placeholder by the
\* captioned message that carries the image of the response, and sends that
\* message to storage.
C9_ImageTurnAlwaysPersisted ==
    /\ [](turn.pc = "generating" => ImageTurnPending /\ UserMessageSent)
    /\ [][ImageSucceeds => ImageDelivered /\ FinalMessageSent]_vars

\* C9 amended: the messages are produced as stated; the user message and the
\* final assistant message are sent to storage when a conversation is active,
\* and nothing is sent when there is none (its creation failed).
C9_ImageTurn ==
    /\ [](turn.pc = "generating" =>
            /\ ImageTurnPending
            /\ IF currentConversationId # NULL THEN UserMessageSent
               ELSE Sends(turn.no, "user") = {})
    /\ [][ImageSucceeds =>
            /\ ImageDelivered
            /\ IF currentConversationId' # NULL THEN FinalMessageSent
               ELSE sent' = sent]_vars

C9_Witness ==
    /\ turn.outcome = "image_ok"
    /\ currentConversationId # NULL
    /\ Len(messages) = 2
    /\ messages[1] = Msg("user", <<"/IMAGINE", "sp", "cat">>, NoImage)
    /\ Last(messages) = Msg("assistant", ImageCaption(<<"cat">>), "img2")
    /\ Len(sent) = 2
    /\ Last(sent).msg = Last(messages)

\* C10: when generateImage rejects, the placeholder's content becomes the
\* failure message, no image is attached, no assistant message of the turn
\* is sent to storage, and isStreaming is false.
C10_ImageFailure ==
    /\ [][(turn.pc = "generating" /\ turn'.pc = "idle" /\ turn'.outcome = "image_failed")
          => /\ Front(messages') = Front(messages)
             /\ Last(messages') = Msg("assistant", ImageFailedText, NoImage)
             /\ sent' = sent
             /\ ~isStreaming']_vars
    /\ [](turn.outcome = "image_failed" => Sends(turn.no, "assistant") = {})

C10_Witness ==
    /\ turn.outcome = "image_failed"
    /\ currentConversationId # NULL
    /\ Sends(turn.no, "user") # {}
    /\ Last(messages).content = ImageFailedText
    /\ ~isStreaming

\* The text of the events that come before the first error or done event.
RECURSIVE TextBeforeError(_)
TextBeforeError(evs) ==
    IF evs = <<>> \/ Head(evs).error \/ Head(evs).done THEN <<>>
    ELSE Head(evs).content \o TextBeforeError(Tail(evs))

NoticeCount(content) ==
    Cardinality({i \in 1..Len(content) : content[i] = "WARN_ERROR"})

\* The step in which a text turn ends by a failure that is no cancellation.
TextTurnFails ==
    TurnEnds /\ turn'.kind = "text" /\ turn'.outcome = "failed"

\* C11: a text turn that fails otherwise than by cancellation leaves the
\* placeholder as the deltas appended before the failure followed by one
\* error notice: for an error event these are the contents of the events
\* before it (its own content is not appended), for a transport error the
\* placeholder as it stood.  No other message changes, no assistant message
\* of the turn is sent to storage, and isStreaming is false.
C11_FailedTextTurn ==
    /\ [][TextTurnFails =>
            /\ Front(messages') = Front(messages)
            /\ Last(messages').role = "assistant"
            /\ Last(messages').content = turn'.fullResponse \o ErrorNotice
            /\ NoticeCount(Last(messages').content) = 1
            /\ turn'.net = "open" =>
                  turn'.fullResponse = TextBeforeError(ValidEvents(turn.frags))
            /\ turn'.net = "failed" =>
                  turn'.fullResponse = Last(messages).content
            /\ sent' = sent
            /\ ~isStreaming']_vars
    /\ [](turn.outcome = "failed" => Sends(turn.no, "assistant") = {})

C11_Witness ==
    /\ turn.outcome = "failed"
    /\ turn.net = "open"
    /\ currentConversationId # NULL
    /\ Sends(turn.no, "user") # {}
    /\ Last(messages).content = <<"a">> \o ErrorNotice
    /\ ~isStreaming

\* The step in which a text turn ends by a graceful completion.
TextTurnCompletes ==
    TurnEnds /\ turn'.kind = "text" /\ turn'.outcome = "completed"

\* The append request for the accumulated text of the turn.
ResponseRequest ==
    [conv |-> currentConversationId',
     msg |-> Msg("assistant", TextBeforeDone(ValidEvents(turn.frags)), NoImage),
     turn |-> turn'.no]

\* C12 as stated: a text turn that completes gracefully sends exactly one
\* assistant append request, whose content is the concatenation of the
\* deltas received, when that text is not empty, and none when it is empty.
C12_CompletionAlwaysPersisted ==
    [][TextTurnCompletes =>
         /\ turn'.fullResponse = TextBeforeDone(ValidEvents(turn.frags))
         /\ IF turn'.fullResponse # <<>>
            THEN sent' = Append(sent, ResponseRequest)
            ELSE sent' = sent]_vars

\* C12 amended: the one request is sent when the text is not empty and a
\* conversation is active; none is sent when the text is empty or when there
\* is no conversation (its creation failed).
C12_CompletionPersisted ==
    /\ [][TextTurnCompletes =>
            /\ turn'.fullResponse = TextBeforeDone(ValidEvents(turn.frags))
            /\ IF turn'.fullResponse # <<>> /\ currentConversationId' # NULL
               THEN sent' = Append(sent, ResponseRequest)
               ELSE sent' = sent]_vars
    /\ []((turn.kind = "text" /\ turn.outcome = "completed") =>
            Cardinality(Sends(turn.no, "assistant")) =
               IF turn.fullResponse # <<>> /\ turn.convId # NULL THEN 1 ELSE 0)

C12_Witness ==
    /\ turn.kind = "text"
    /\ turn.outcome = "completed"
    /\ turn.convId # NULL
    /\ turn.fullResponse = <<"a", "u">>
    /\ Cardinality(Sends(turn.no, "assistant")) = 1
    /\ Last(sent).msg = Msg("assistant", <<"a", "u">>, NoImage)

\* The step in which sendMessage takes up the failure of createConversation.
CreationFails ==
    turn.pc = "ensuring" /\ turn'.pc # "ensuring" /\ turn'.convId = NULL

\* C13: when no conversation is active and creating one fails, sendMessage
\* runs on: a text input inserts the user message and the empty placeholder,
\* sets isStreaming and issues the streaming request with a null conversation
\* id (an image command inserts its messages likewise); the conversation id
\* stays null and the turn sends no append request, then or later.
C13_TurnWithoutConversation ==
    /\ [][CreationFails =>
            /\ currentConversationId' = NULL
            /\ sent' = sent
            /\ IF ~IsImageCommand(turn.input)
               THEN /\ messages' = messages \o
                          <<Msg("user", turn.input, NoImage),
                            Msg("assistant", <<>>, NoImage)>>
                    /\ isStreaming'
                    /\ turn'.pc = "fetching"
                    /\ turn'.req.conversationId = NULL
                    /\ Len(turn'.req.messages) = Len(messages) + 1
                    /\ Last(turn'.req.messages) =
                          [role |-> "user", content |-> turn.input]
               ELSE IF PromptOf(turn.input) # <<>>
               THEN /\ messages' = messages \o
                          <<Msg("user", turn.input, NoImage),
                            Msg("assistant", GeneratingText, NoImage)>>
                    /\ isStreaming'
                    /\ turn'.pc = "generating"
               ELSE /\ messages' = Append(messages,
                                          Msg("assistant", UsageWarning, NoImage))
                    /\ turn'.pc = "idle"]_vars
    /\ [](turn.convId = NULL => \A i \in 1..Len(sent) : sent[i].turn # turn.no)
    /\ [](turn.pc \in {"fetching", "reading"} =>
            turn.req.conversationId = turn.convId)

C13_Witness ==
    /\ turn.no >= 1
    /\ turn.convId = NULL
    /\ turn.kind = "text"
    /\ turn.outcome = "completed"
    /\ messages = <<Msg("user", <<"hi">>, NoImage),
                    Msg("assistant", <<"a", "u">>, NoImage)>>
    /\ sent = <<>>

\* C14: a turn that has set isStreaming clears it and releases the
\* cancellation handle in the end, whichever way it ends, when every network
\* operation it awaits settles.
C14_StreamingFlagCleared ==
    isStreaming ~> (~isStreaming /\ abortControllerRef = NULL)

C14_Witness ==
    /\ turn.kind = "text"
    /\ turn.outcome = "failed"
    /\ turn.net = "failed"
    /\ Len(messages) >= 2
    /\ ~isStreaming
    /\ abortControllerRef = NULL

\* The turn awaits the streaming request, a read of its body, or the image
\* generation.
Receiving == turn.pc \in {"fetching", "reading", "generating"}

\* C15: isStreaming is true at every moment from the start of a turn to its
\* terminal event, cancellation or error, and false at every other moment.
C15_StreamingFromTurnStart ==
    isStreaming <=> turn.pc # "idle"

\* What the code keeps: isStreaming is true exactly while the turn awaits
\* the network, and false while it awaits createConversation.
StreamingWhileReceiving ==
    isStreaming <=> Receiving

\* A turn in flight with isStreaming false.
C15_Witness ==
    /\ turn.pc = "ensuring"
    /\ turn.input = <<"hi">>
    /\ \E k \in tasks : k.op = "create" /\ k.pc = "list"
    /\ ~isStreaming


\* C16: driven only through what the page offers, sendMessage is never
\* called while an earlier call is still in flight: a turn starts only when
\* no turn is active.
C16_TurnsNeverOverlap ==
    [][(turn'.no # turn.no \/ turn'.overlapped) => turn.pc = "idle"]_vars

\* The first call still awaits createConversation, isStreaming is false,
\* and the page has let a second call begin.
C16_Witness ==
    /\ turn.overlapped
    /\ turn.pc = "ensuring"
    /\ ~isStreaming


\* C17: stopGeneration called while no turn is in flight changes nothing:
\* no controller is held then, and the step leaves every variable of the
\* client as it is (messages, isStreaming, currentConversationId, the
\* controller reference, the requests sent).
C17_StopWithoutTurn ==
    turn.pc = "idle" =>
        /\ abortControllerRef = NULL
        /\ ~ENABLED (StopGeneration /\ vars' # vars)

\* A turn was stopped and has ended as cancelled; a further stop finds no
\* turn in flight.
C17_Witness ==
    /\ turn.pc = "idle"
    /\ turn.outcome = "cancelled"
    /\ messages # <<>>
    /\ abortControllerRef = NULL


\* The step in which the streaming request of a turn fails: fetch rejects or
\* resolves with a failure status or without a body.
TransportFails == turn.pc = "fetching" /\ turn'.net = "failed"

\* C18: when the streaming request comes back with a failure status or
\* without a body, no event is yielded and no delta appended (the body is
\* never read, the placeholder is still empty), the placeholder receives one
\* error notice and no other message changes, the call ends there with
\* isStreaming false, and the turn issues no second streaming request.
C18_TransportFailure ==
    /\ [][TransportFails =>
            /\ turn.frags = <<>> /\ turn.pos = 0 /\ turn.gen = NewGen
            /\ turn.fullResponse = <<>> /\ turn'.fullResponse = <<>>
            /\ Last(messages).content = <<>>
            /\ Front(messages') = Front(messages)
            /\ Last(messages') = [Last(messages) EXCEPT !.content = ErrorNotice]
            /\ NoticeCount(Last(messages').content) = 1
            /\ turn'.pc = "idle" /\ turn'.outcome = "failed"
            /\ turn'.req = NoRequest \/ turn'.req = turn.req
            /\ sent' = sent
            /\ ~isStreaming' /\ abortControllerRef' = NULL]_vars
    /\ [][(turn.outcome = "failed" /\ turn'.no = turn.no) => UNCHANGED turn]_vars

\* The streaming request of a turn has failed: the placeholder holds the
\* notice alone, after the user message.
C18_Witness ==
    /\ turn.pc = "idle"
    /\ turn.outcome = "failed"
    /\ turn.net = "failed"
    /\ turn.fullResponse = <<>>
    /\ Len(messages) = 2
    /\ messages[1].role = "user"
    /\ messages[2].content = ErrorNotice


\* A list request of loadConversations is in flight.
ListFetching == \E k \in tasks : k.pc \in {"list", "list_ok"}

\* C19: isLoadingConversations is true exactly while a list fetch of
\* loadConversations is in flight, overlapping refreshes included.
C19_LoadingWhileFetching == isLoadingConversations <=> ListFetching

\* Two refreshes overlapped: the first to settle cleared the flag while the
\* list request of the other is still in flight.
C19_Witness ==
    /\ ~isLoadingConversations
    /\ \E k \in tasks : k.op = "save" /\ k.pc = "list"


\* The step in which the list request of the loadConversations call k
\* settles with a failure.
ListFetchFails(k) ==
    /\ k \in tasks
    /\ k.pc = "list"
    /\ ~\E j \in tasks' : j.id = k.id /\ j.pc \in {"list", "list_ok"}

\* C20: when the list request of loadConversations fails, conversations
\* keeps its value and isLoadingConversations is cleared; the call does not
\* reject: createConversation, which awaits it, goes on to select the new
\* conversation and returns its id to sendMessage, and the other callers
\* change nothing more.
C20_ListFetchFailure ==
    [][\A k \in tasks : ListFetchFails(k) =>
          /\ conversations' = conversations
          /\ ~isLoadingConversations'
          /\ IF k.op = "create"
             THEN /\ currentConversationId' = k.conv
                  /\ turn'.convId = k.conv
                  /\ turn'.pc # "ensuring"
                  /\ turn'.outcome # "failed"
             ELSE UNCHANGED <<messages, isStreaming, currentConversationId,
                              abortControllerRef, turn, sent>>]_vars

\* A conversation was created and is active, every refresh since then has
\* failed: the list still holds the earlier conversations only.
C20_Witness ==
    /\ tasks = {}
    /\ ~isLoadingConversations
    /\ currentConversationId # NULL
    /\ conversations # {}
    /\ [id |-> currentConversationId] \notin conversations
    /\ currentConversationId \in srvConvs


\* The step in which the loadConversation call k returns.
LoadReturns(k) ==
    /\ k \in tasks
    /\ k.op = "load"
    /\ ~\E j \in tasks' : j.id = k.id /\ j.op = "load"

\* C21: loadConversation(id) writes currentConversationId and messages in
\* the one step that follows a successful get request, the id as asked and
\* the messages as fetched; when the request fails it writes neither, and
\* while the request is in flight neither changes.
C21_LoadSwapsTogether ==
    /\ [][\A k \in tasks : LoadReturns(k) =>
            IF k.pc = "req_ok"
            THEN /\ currentConversationId' = k.conv
                 /\ messages' = k.hist
            ELSE UNCHANGED <<currentConversationId, messages>>]_vars
    /\ [][(\E k \in tasks' : k.op = "load") =>
            UNCHANGED <<currentConversationId, messages>>]_vars

\* After a turn in a new conversation the earlier conversation was loaded:
\* the id and the messages are those of the earlier one.
C21_Witness ==
    /\ tasks = {}
    /\ turn.pc = "idle"
    /\ turn.convId = 2
    /\ currentConversationId = 1
    /\ messages = OldConversation


\* The step in which the createConversation call k returns to sendMessage.
CreateReturns(k) ==
    /\ k \in tasks
    /\ k.op = "create"
    /\ ~\E j \in tasks' : j.id = k.id /\ j.op = "create"

\* The messages sendMessage inserts once createConversation has returned id
\* to it, were the list empty at that moment.
InsertedOnReturn(id) ==
    RunTurn([View EXCEPT !.messages = <<>>, !.currentConversationId = id],
            [turn EXCEPT !.convId = id]).view.messages

\* C22: when the create request succeeded, createConversation returns the id
\* the storage assigned and leaves it as currentConversationId with the
\* message list emptied: after the step the list holds nothing but what
\* sendMessage inserts on return.  When the create request failed, it
\* rejects (the turn has no conversation id) and leaves
\* currentConversationId, conversations and the messages held so far as they
\* were.
C22_CreateConversation ==
    [][\A k \in tasks : CreateReturns(k) =>
         IF k.pc \in {"list", "list_ok"}
         THEN /\ k.conv \in srvConvs
              /\ k.conv = srvNext - 1
              /\ turn'.convId = k.conv
              /\ currentConversationId' = k.conv
              /\ messages' = InsertedOnReturn(k.conv)
              /\ Len(messages') \in 1..2
         ELSE /\ turn'.convId = NULL
              /\ currentConversationId' = currentConversationId
              /\ conversations' = conversations
              /\ Len(messages') >= Len(messages)
              /\ SubSeq(messages', 1, Len(messages)) = messages]_vars

\* The first turn ran without a conversation and left its messages; the
\* second created conversation 2, which emptied the list before the turn's
\* own messages went in.
C22_Witness ==
    /\ turn.no = 2
    /\ turn.convId = 2
    /\ currentConversationId = 2
    /\ Len(messages) = 2
    /\ messages[1] = Msg("user", turn.input, NoImage)


\* The step in which the list request of the loadConversations call k is
\* answered.
ListAnswered(k) ==
    /\ k \in tasks'
    /\ k.pc = "list_ok"
    /\ k \notin tasks

\* C23: the conversations cache is written only by a loadConversations call
\* whose list request succeeded, with the list that request returned, and
\* that list is the snapshot of the storage at the moment the request was
\* answered; so the cache is the initial empty list or one such snapshot.
C23_CacheIsOneSnapshot ==
    /\ [][conversations' # conversations =>
            \E k \in tasks : /\ k.pc = "list_ok"
                             /\ k \notin tasks'
                             /\ conversations' = k.snap]_vars
    /\ [][\A k \in tasks' : ListAnswered(k) => k.snap = Snapshot(srvConvs)]_vars
    /\ [](\A k \in tasks : k.pc # "list_ok" => k.snap = {})

\* The cache holds the list of an earlier fetch while the answer of a later
\* one, taken after a conversation was created, is on its way.
C23_Witness ==
    /\ conversations = Snapshot({1})
    /\ \E k \in tasks : k.pc = "list_ok" /\ k.snap = Snapshot({1, 2})


\* The ways a sendMessage call returns: each is a return of the function or
\* the end of a catch or finally block, none a rejection.
Returned ==
    {"completed", "failed", "cancelled", "usage", "image_ok", "image_failed"}

\* C24: sendMessage never rejects.  Whatever fails during the call (the
\* creation of the conversation, a save, the streaming request or a read of
\* its body, an error event, the image generation), a call that is over has
\* returned in one of the ways above, with isStreaming false and no
\* controller held; a call in flight has not ended.
C24_SendMessageReturns ==
    /\ turn.pc = "idle" /\ turn.no > 0 =>
          /\ turn.outcome \in Returned
          /\ ~isStreaming
          /\ abortControllerRef = NULL
    /\ turn.pc # "idle" => turn.outcome = "none"

\* Two failures in one call: the conversation could not be created and the
\* streaming request failed; the call has returned with the notice shown.
C24_Witness ==
    /\ turn.pc = "idle"
    /\ turn.convId = NULL
    /\ currentConversationId = NULL
    /\ turn.outcome = "failed"
    /\ turn.net = "failed"
    /\ Last(messages).content = ErrorNotice


\* The step in which the append request of the saveMessage call k fails.
SaveFails(k) ==
    /\ k \in tasks
    /\ k.op = "save"
    /\ k.pc = "req"
    /\ ~\E j \in tasks' : j.id = k.id /\ j.op = "save"

\* C25: when the append request of a message of the turn fails, the failure
\* is shown in the conversation: a notice is appended to the message list.
C25_SaveFailureShown ==
    [][\A k \in tasks : SaveFails(k) =>
          /\ messages' # messages
          /\ NoticeCount(Last(messages').content) > 0]_vars

\* The append request of the user message has failed while the turn was
\* streaming and the turn has completed: the list holds the two messages of
\* the turn with no notice, and the storage holds only the response.
C25_Witness ==
    /\ tasks = {}
    /\ turn.outcome = "completed"
    /\ turn.convId = 2
    /\ Len(messages) = 2
    /\ NoticeCount(messages[1].content) = 0
    /\ NoticeCount(messages[2].content) = 0
    /\ Len(srvMsgs[2]) = 1
    /\ srvMsgs[2][1].role = "assistant"


\* The step in which sendMessage, its conversation settled, takes the image
\* path.
ImageCommandRuns ==
    /\ turn.pc \in {"idle", "ensuring"}
    /\ turn'.kind = "image"
    /\ turn'.no # turn.no \/ turn.pc = "ensuring"

\* The user message of the turn stands in the list right before the one
\* assistant message inserted after it.
UserMessageFirst ==
    /\ Len(messages') >= 2
    /\ messages'[Len(messages') - 1] = Msg("user", turn'.input, NoImage)
    /\ Last(messages').role = "assistant"
    /\ Len(messages') = 2 \/ SubSeq(messages', 1, Len(messages') - 2) = messages

UserSaveIssued ==
    sent' = Append(sent, [conv |-> currentConversationId',
                          msg |-> Msg("user", turn'.input, NoImage),
                          turn |-> turn'.no])

\* C26 as stated: for every input with the image command prefix, the user
\* message is in the list and its append request issued by the time an
\* assistant message of the turn is inserted.
C26_UserMessageAlwaysFirst ==
    [][ImageCommandRuns => UserMessageFirst /\ UserSaveIssued]_vars

\* C26 amended: with a prompt after the prefix, the user message is inserted
\* before the placeholder, and its append request is issued when a
\* conversation is active (none is when its creation failed); with no prompt
\* the call inserts the usage notice alone, no user message, sends nothing
\* and returns.
C26_UserMessageFirst ==
    [][ImageCommandRuns =>
         IF turn'.pc = "generating"
         THEN /\ Trim(Tail(turn'.input)) # <<>>
              /\ UserMessageFirst
              /\ IF currentConversationId' # NULL THEN UserSaveIssued
                 ELSE sent' = sent
         ELSE /\ Trim(Tail(turn'.input)) = <<>>
              /\ turn'.pc = "idle"
              /\ Last(messages') = Msg("assistant", UsageWarning, NoImage)
              /\ Len(messages') = 1 \/ Front(messages') = messages
              /\ sent' = sent]_vars

\* An image command with a prompt has inserted its two messages in a new
\* conversation and awaits the generation; the user message is on its way to
\* the storage.
C26_Witness ==
    /\ turn.pc = "generating"
    /\ currentConversationId = 2
    /\ messages = <<Msg("user", <<"/IMAGINE", "sp", "cat">>, NoImage),
                    Msg("assistant", GeneratingText, NoImage)>>
    /\ Len(sent) = 1
    /\ sent[1].msg = messages[1]


\* C27: appendToLastMessage(delta) keeps the length of the list and every
\* message but the last, and gives the last message its old content followed
\* by delta, its role and image as they were; an empty list stays empty; an
\* empty delta leaves the list as it is.
C27_AppendToLastMessage ==
    \A delta \in Deltas :
        LET r == AppendToLastMessage(messages, delta)
        IN  /\ Len(r) = Len(messages)
            /\ messages = <<>> => r = <<>>
            /\ messages # <<>> =>
                  /\ Front(r) = Front(messages)
                  /\ Last(r).content = Last(messages).content \o delta
                  /\ Last(r).role = Last(messages).role
                  /\ Last(r).image = Last(messages).image
            /\ delta = <<>> => r = messages

\* Two deltas were appended to the last of two messages.
C27_Witness ==
    /\ opsLeft = 0
    /\ Len(messages) = 2
    /\ messages[1].content = <<"a">>
    /\ messages[2].content = <<"a", "a", "u">>


\* r is the list msgs with nothing changed but, at most, the stated field of
\* its last message.
OnlyLastContent(r, msgs) ==
    /\ Len(r) = Len(msgs)
    /\ \A i \in 1..Len(msgs) :
          /\ r[i].role = msgs[i].role
          /\ r[i].image = msgs[i].image
          /\ i < Len(msgs) => r[i].content = msgs[i].content

OnlyLastImage(r, msgs) ==
    /\ Len(r) = Len(msgs)
    /\ \A i \in 1..Len(msgs) :
          /\ r[i].role = msgs[i].role
          /\ r[i].content = msgs[i].content
          /\ i < Len(msgs) => r[i].image = msgs[i].image

\* C28: appendToLastMessage, updateLastMessage and setLastMessageImage keep
\* the number of messages and every message but the last, and leave
\* isStreaming, currentConversationId and conversations alone;
\* updateLastMessage changes nothing but the content of the last message,
\* setLastMessageImage nothing but its image.
C28_InPlaceMutations ==
    /\ [][/\ Len(messages') = Len(messages)
          /\ \A i \in 1..(Len(messages) - 1) : messages'[i] = messages[i]
          /\ UNCHANGED <<isStreaming, currentConversationId, conversations>>]_vars
    /\ [](\A content \in Deltas :
             /\ OnlyLastContent(UpdateLastMessage(messages, content), messages)
             /\ messages # <<>> =>
                   Last(UpdateLastMessage(messages, content)).content = content)
    /\ [](\A image \in Images :
             /\ OnlyLastImage(SetLastMessageImage(messages, image), messages)
             /\ messages # <<>> =>
                   Last(SetLastMessageImage(messages, image)).image = image)

\* An image was attached to the last of two messages and its content then
\* replaced: the image is still there, the first message as it was.
C28_Witness ==
    /\ opsLeft = 0
    /\ isStreaming
    /\ Len(messages) = 2
    /\ messages[1] = Msg("user", <<"a">>, NoImage)
    /\ messages[2] = Msg("assistant", <<"u">>, "img2")


\* C29: in a text turn the history of the streaming request is the message
\* list as it stands once the placeholder is inserted, without that
\* placeholder: message for message the list before the last one, ending
\* with the user message of the turn.
C29_HistoryWithoutPlaceholder ==
    turn.pc = "fetching" =>
        /\ Len(messages) >= 2
        /\ Last(messages) = Msg("assistant", <<>>, NoImage)
        /\ Len(turn.req.messages) = Len(messages) - 1
        /\ \A i \in 1..(Len(messages) - 1) :
              turn.req.messages[i] =
                  [role |-> messages[i].role, content |-> messages[i].content]
        /\ Last(turn.req.messages) = [role |-> "user", content |-> turn.input]
        /\ turn.req.conversationId = turn.convId

\* The second turn of a conversation: the request carries the two messages
\* of the first turn and the new user message.
C29_Witness ==
    /\ turn.pc = "fetching"
    /\ turn.no = 2
    /\ Len(messages) = 4
    /\ Len(turn.req.messages) = 3
    /\ turn.req.messages[2].role = "assistant"
    /\ turn.req.messages[2].content # <<>>

\* The history of a request holds an empty assistant message: the
\* placeholder of an earlier turn that received no text.
EarlierPlaceholderSent ==
    /\ turn.pc = "fetching"
    /\ \E i \in 1..Len(turn.req.messages) :
          turn.req.messages[i] = [role |-> "assistant", content |-> <<>>]


\* The step in which the delete request of the deleteConversation call k
\* settles.
DeleteRequestSettles(k) ==
    /\ k \in tasks
    /\ k.op = "delete"
    /\ k.pc \in {"req", "req_ok"}
    /\ ~\E j \in tasks' : j.id = k.id /\ j.op = "delete" /\ j.pc \in {"req", "req_ok"}

\* C30: deleteConversation(id) for a conversation that is not the active one
\* never changes messages or currentConversationId, and after a successful
\* delete request it goes on to refresh the list; when the delete request
\* fails the call ends there, with messages, currentConversationId and
\* conversations as they were, and no refresh.
C30_DeleteOtherConversation ==
    /\ [][(\E k \in tasks : k.op = "delete" /\ k.conv # currentConversationId) =>
            UNCHANGED <<messages, currentConversationId>>]_vars
    /\ [][\A k \in tasks : DeleteRequestSettles(k) =>
            IF k.pc = "req_ok"
            THEN /\ k.conv # currentConversationId =>
                       UNCHANGED <<messages, currentConversationId>>
                 /\ isLoadingConversations'
                 /\ \E j \in tasks' : j.id = k.id /\ j.op = "delete" /\ j.pc = "list"
            ELSE /\ UNCHANGED <<messages, currentConversationId, conversations,
                                isLoadingConversations>>
                 /\ tasks' = tasks \ {k}]_vars

\* The earlier conversation was deleted while the new one is active: the
\* messages and the id of the new one are in place and the refreshed list
\* no longer holds the deleted one.
C30_Witness ==
    /\ tasks = {}
    /\ currentConversationId = 2
    /\ Len(messages) = 2
    /\ srvConvs = {2}
    /\ conversations = Snapshot({2})


\* The new list keeps every message of the old one in its place, the last
\* one possibly rewritten in place.
KeptUpToLast ==
    /\ Len(messages') >= Len(messages)
    /\ \A i \in 1..(Len(messages) - 1) : messages'[i] = messages[i]
    /\ messages # <<>> => messages'[Len(messages)].role = Last(messages).role

\* C31: the progress of a turn never removes a message from the list: in
\* every step of a sendMessage call the old list is a prefix of the new one
\* up to the in-place rewriting of its last message.
C31_TurnKeepsMessages ==
    [][turn' # turn => KeptUpToLast]_vars

\* A first turn ran without a conversation and left two messages; the second
\* turn has created conversation 2 and awaits its response: the list holds
\* the two messages of the second turn only.
C31_Witness ==
    /\ turn.no = 2
    /\ turn.pc = "fetching"
    /\ currentConversationId = 2
    /\ srvNext = 3
    /\ Len(messages) = 2


\* C34: whenever isStreaming is true a cancellation handle is installed, so
\* that stopGeneration has something to abort.
C34_StreamingHasHandle ==
    isStreaming => abortControllerRef # NULL

\* An image turn awaits its image: the stop control is shown and
\* stopGeneration changes nothing.
C34_Witness ==
    /\ turn.pc = "generating"
    /\ isStreaming
    /\ abortControllerRef = NULL
    /\ ~ENABLED (StopGeneration /\ vars' # vars)


\* The messages this client sent for conversation c, in the order of the
\* saveMessage calls, which is the order of the local list.
RECURSIVE SentTo(_, _)
SentTo(s, c) ==
    IF s = <<>> THEN <<>>
    ELSE IF Head(s).conv = c THEN <<Head(s).msg>> \o SentTo(Tail(s), c)
    ELSE SentTo(Tail(s), c)

\* The messages conversation c received from this client: all of them but
\* the two that conversation 1 held before the page was mounted.
StoredSince(c) ==
    IF c = 1 /\ Len(srvMsgs[c]) >= Len(OldConversation)
    THEN SubSeq(srvMsgs[c], Len(OldConversation) + 1, Len(srvMsgs[c]))
    ELSE srvMsgs[c]

\* a can be obtained from b by leaving messages out.
RECURSIVE IsSubSeq(_, _)
IsSubSeq(a, b) ==
    IF a = <<>> THEN TRUE
    ELSE IF b = <<>> THEN FALSE
    ELSE IF Head(a) = Head(b) THEN IsSubSeq(Tail(a), Tail(b))
    ELSE IsSubSeq(a, Tail(b))

\* C38: within each conversation the storage holds the messages of this
\* client in the order of the local list: what it received is the sequence
\* of the messages sent to it, some possibly missing, none out of place.
C38_StoredInLocalOrder ==
    \A c \in ConvIds : IsSubSeq(StoredSince(c), SentTo(sent, c))

\* A text turn has completed and both its saves are settled: conversation 2
\* holds the response before the user message.
C38_Witness ==
    /\ Quiet
    /\ turn.outcome = "completed"
    /\ Len(srvMsgs[2]) = 2
    /\ srvMsgs[2][1].role = "assistant"
    /\ srvMsgs[2][2].role = "user"
    /\ messages[1].role = "user"


\* The step in which reader.read() reports the end of the transport to a
\* turn that is still reading: no done event and no error event came before.
TransportEnds ==
    /\ turn.pc = "reading"
    /\ ~turn.aborted
    /\ turn.pos = Len(TurnWire)
    /\ TurnEnds
    /\ turn'.net # "failed"

\* The append request for the text the turn has accumulated.
AccumulatedRequest ==
    [conv |-> currentConversationId',
     msg |-> Msg("assistant", turn'.fullResponse, NoImage),
     turn |-> turn.no]

\* What the end of the transport leaves in any case: a completed turn, the
\* list untouched and so without a new notice, isStreaming false, and as
\* accumulated text that of the events that were delimited before the end.
EndsGracefully ==
    /\ turn'.outcome = "completed"
    /\ messages' = messages
    /\ ~isStreaming'
    /\ abortControllerRef' = NULL
    /\ turn'.fullResponse = TextBeforeDone(ValidEvents(turn.frags))

\* C37 as stated: when the transport ends without a done event the turn
\* completes gracefully and the accumulated text is persisted whenever it is
\* not empty.
C37_EndAlwaysPersists ==
    [][TransportEnds =>
         /\ EndsGracefully
         /\ IF turn'.fullResponse # <<>>
            THEN sent' = Append(sent, AccumulatedRequest)
            ELSE sent' = sent]_vars

\* C37 amended: the accumulated text is persisted when it is not empty and a
\* conversation is active; nothing is sent otherwise.
C37_EndWithoutDone ==
    [][TransportEnds =>
         /\ EndsGracefully
         /\ IF turn'.fullResponse # <<>> /\ currentConversationId' # NULL
            THEN sent' = Append(sent, AccumulatedRequest)
            ELSE sent' = sent]_vars

\* A turn read a truncated payload, one delta and an undelimited rest, then
\* the end of the transport: it completed, the placeholder holds the delta
\* and the delta was sent to storage.
C37_Witness ==
    /\ turn.pc = "idle"
    /\ turn.outcome = "completed"
    /\ turn.convId # NULL
    /\ turn.fullResponse = <<"u">>
    /\ ~isStreaming
    /\ messages # <<>>
    /\ Last(messages) = Msg("assistant", <<"u">>, NoImage)
    /\ sent # <<>>
    /\ Last(sent).msg = Msg("assistant", <<"u">>, NoImage)


\* The step in which a text turn takes content deltas from its stream.
DeltasArrive ==
    /\ turn.pc = "reading"
    /\ turn'.fullResponse # turn.fullResponse

\* C32: every content delta of a text turn goes to the placeholder this turn
\* inserted and to no other message: when deltas arrive the last message is
\* the assistant message that follows the user message of the turn and holds
\* the deltas of the turn so far, the deltas are appended to it (an error
\* notice may follow them in the same step), and nothing else changes in the
\* list.
C32_DeltasGoToOwnPlaceholder ==
    [][DeltasArrive =>
         /\ Len(messages) >= 2
         /\ messages[Len(messages) - 1] = Msg("user", turn.input, NoImage)
         /\ Last(messages) = Msg("assistant", turn.fullResponse, NoImage)
         /\ Len(messages') = Len(messages)
         /\ Front(messages') = Front(messages)
         /\ Last(messages').role = "assistant"
         /\ Len(Last(messages').content) >= Len(turn'.fullResponse)
         /\ SubSeq(Last(messages').content, 1, Len(turn'.fullResponse)) =
               turn'.fullResponse]_vars

\* The user selected conversation 2 while the first turn was streaming in
\* conversation 3: the stored response "u" of conversation 2 is shown with
\* the delta "a" of the turn appended.
C32_Witness ==
    /\ turn.no = 1
    /\ turn.pc = "reading"
    /\ turn.convId = 3
    /\ currentConversationId = 2
    /\ Len(messages) = 2
    /\ messages[1] = OtherConversation[1]
    /\ Last(messages) = Msg("assistant", <<"u", "a">>, NoImage)


\* C33: the assistant message of a turn is persisted to the conversation to
\* which the user message of that turn was persisted: all append requests of
\* one turn name the same conversation, and a turn that completed with a
\* response and whose user message was sent has sent the response too.
C33_ResponseFollowsUserMessage ==
    /\ \A i, j \in 1..Len(sent) :
          (sent[i].turn # 0 /\ sent[i].turn = sent[j].turn) =>
             sent[i].conv = sent[j].conv
    /\ (/\ turn.outcome = "completed"
        /\ turn.fullResponse # <<>>
        /\ Sends(turn.no, "user") # {}) => Sends(turn.no, "assistant") # {}

\* The user message of the first turn was sent to conversation 3; the user
\* selected conversation 2 while the response was streaming, and the
\* response was sent to conversation 2.
C33_Witness ==
    /\ turn.no = 1
    /\ turn.outcome = "completed"
    /\ turn.convId = 3
    /\ \E i \in Sends(1, "user") : sent[i].conv = 3
    /\ \E i \in Sends(1, "assistant") :
          sent[i].conv = 2 /\ sent[i].msg.content = <<"a", "u">>
    /\ Len(srvMsgs[2]) = 3
    /\ srvMsgs[2][3] = Msg("assistant", <<"a", "u">>, NoImage)


\* Conversation c is gone for this client: the storage does not hold it and
\* no delete request of this client for it is still to be taken up.
Gone(c) ==
    /\ c \notin srvConvs
    /\ ~\E k \in tasks : k.op = "delete" /\ k.conv = c /\ k.pc = "req_ok"

\* C36: currentConversationId is null or the id of a conversation the
\* storage holds (or of one whose deletion this client has not yet taken
\* up), and no append request is issued for a conversation after this
\* client's delete request for it has succeeded.
C36_CurrentConversationExists ==
    /\ [](currentConversationId # NULL => ~Gone(currentConversationId))
    /\ [][\A i \in 1..Len(sent') :
            (i > Len(sent) /\ sent'[i].msg # NoMsg) => ~Gone(sent'[i].conv)]_vars

\* The user selected conversation 1 and deleted it before the get request
\* settled: everything has settled, the sidebar no longer lists conversation
\* 1, the storage no longer holds it, and it is the current conversation
\* with its messages shown.
C36_Witness ==
    /\ tasks = {}
    /\ currentConversationId = 1
    /\ 1 \notin srvConvs
    /\ conversations = Snapshot({2})
    /\ messages = OldConversation


\* The conversation of the last selection recorded in s, NULL if none.
RECURSIVE LastSelected(_)
LastSelected(s) ==
    IF s = <<>> THEN NULL
    ELSE IF Last(s).msg = NoMsg THEN Last(s).conv
    ELSE LastSelected(Front(s))

\* The user did nothing but select conversations, and the storage holds
\* each of them, so that every get request succeeds.
OnlySelections ==
    /\ Len(sent) = MaxAsyncOps - opsLeft
    /\ \A i \in 1..Len(sent) : sent[i].msg = NoMsg /\ sent[i].conv \in srvConvs

\* C35: when the user selected several conversations in a row and every get
\* request has settled with success, the conversation selected last is the
\* current one.
C35_LastSelectionRemains ==
    (OnlySelections /\ sent # <<>> /\ tasks = {}) =>
       currentConversationId = LastSelected(sent)

\* The user selected conversation 1, then conversation 2; the response for
\* conversation 2 was taken up first: conversation 1 remains.
C35_Witness ==
    /\ sent = <<Selection(1), Selection(2)>>
    /\ tasks = {}
    /\ currentConversationId = 1
    /\ messages = OldConversation


\* Every store operation has settled and no sendMessage call is in flight.
AllSettled ==
    /\ tasks = {}
    /\ turn.pc = "idle"

\* C39 as stated: once every store operation has settled, no list request
\* having failed, the conversations cache is the storage's list of
\* conversations.
C39_CacheEqualsStorage ==
    AllSettled => conversations = Snapshot(srvConvs)


\* C39 amended: the cache is the list of the refresh response that was taken
\* up last.  Every list response that is taken up replaces the cache by the
\* list it carries, which is the storage's list of the moment it was
\* produced, whatever the cache held and whatever the storage holds by now.
C39_LastResponseWins ==
    [][\A k \in tasks :
         (k.pc = "list_ok" /\ k \notin tasks') =>
            /\ conversations' = k.snap
            /\ (conversations' = Snapshot(srvConvs')) =
                  (k.snap = Snapshot(srvConvs))]_vars

\* The user deleted conversation 1, then conversation 2.  The refresh of the
\* first deletion was answered before the second deletion was carried out
\* and taken up after the refresh of the second: everything has settled, the
\* storage holds no conversation and the sidebar lists conversation 2.
C39_Witness ==
    /\ AllSettled
    /\ opsLeft = 0
    /\ srvConvs = {}
    /\ conversations = Snapshot({2})

====
